---- MODULE Spec2Model ----
(***************************************************************************)
(* Model of github-actions-utils-cli: the reference parser                 *)
(* (internal/github/ref.go, ParseRef), the raw-content fetcher with        *)
(* filename fallback (internal/github/actions.go, ActionsService), alone,  *)
(* under concurrent callers and against a repository with branches, tags   *)
(* and commits, the MCP server with its tool registration and Sentry       *)
(* tracing wrapper (internal/cli/mcp), the process and its telemetry       *)
(* switch (cmd/cli/main.go, main) and the logging MultiHandler.            *)
(*                                                                         *)
(* A Go string is a sequence of one-character strings; Str turns such a    *)
(* sequence into a TLA+ string where the code formats it into a message or *)
(* a URL.  A Go pointer or error that may be nil is a sequence of length   *)
(* 0 (nil) or 1.                                                           *)
(***************************************************************************)
EXTENDS Integers, Sequences, FiniteSets, TLC

VARIABLES
    input,          \* the ref string handed to the parser entry point
    requireVersion, \* ParseRef's requireVersion argument
    defaultVersion, \* ParseRef's defaultVersion argument
    ppc,            \* "input" before the parser call, "returned" after it
    parsed,         \* what the parser returned: [ref, err]
    call,           \* the service operation in progress and its arguments
    spc,            \* "idle", "get" (about to request candidate idx), "wait"
                    \* (request in flight), "done" (the operation returned)
    cref,           \* owner, repo and version the fetch runs on
    idx,            \* index of the candidate filename the loop is at
    lastErr,        \* the loop's lastErr: nil or the latest candidate's error
    rawRet,         \* the loop's data, err: what FetchRawFile last returned
    remote,         \* what the CDN answers for each candidate of this call
    requests,       \* the URLs requested from the CDN so far, in order
    fetched,        \* what FetchActionYAML / FetchReadme returned: [val, err]
    result,         \* what the operation returned: [val, err]
    service,        \* the ActionsService the concurrent callers share
    thr,            \* the concurrent callers: per caller, its call and locals
    tools,          \* the tools registered with the MCP server
    tpc,            \* "new" (no tool registered), "serving", "wrapper" (a tool
                    \* call entered the tracing wrapper), "handler" (the wrapped
                    \* handler runs), "handled" (it returned), "returned"
    tcall,          \* the tool call in progress: tool, handler, req, args
    span,           \* the Sentry span of the tool call
    invoked,        \* the (req, args) the wrapped handler was invoked with
    hret,           \* what the wrapped handler returned: [result, data, err]
    tret,           \* what the tracing wrapper returned: [result, data, err]
    captured,       \* the errors captured to Sentry, in order
    repository,     \* the GitHub repository the CDN serves, at one of its refs
    env,            \* the value of TELEMETRY_ENABLED ("" when it is not set)
    mpc,            \* main: "start", "execute" (about to run the CLI),
                    \* "executed" (cmd.Execute returned), "exited"
    client,         \* the client bound to Sentry's hub: nil until sentry.Init
    defaultLogger,  \* the handlers behind slog.Default()
    deferred,       \* the calls main has deferred
    execErr,        \* what cmd.Execute returned
    sentryCalls,    \* the calls made to the sentry package after Init, in order
    sent,           \* the events delivered to Sentry
    stderr,         \* what main wrote to os.Stderr
    exitCode,       \* the exit code of the process, -1 while it runs
    handlers,       \* the handlers of the MultiHandler, in list order
    record,         \* the log record handed to the MultiHandler
    lpc,            \* "ready", "handle" (Handle's loop runs), "returned",
                    \* "dropped" (the logger found no handler enabled)
    hidx,           \* the index of the handler Handle's loop is at
    received,       \* the deliveries: which handler got which record, in order
    handleRet       \* what Handle returned: nil or an error

pvars == <<input, requireVersion, defaultVersion, ppc, parsed>>

svars == <<call, spc, cref, idx, lastErr, rawRet, remote, requests, fetched, result>>

cvars == <<service, thr>>

mvars == <<tools, tpc, tcall, span, invoked, hret, tret, captured>>

wvars == <<repository>>

avars == <<env, mpc, client, defaultLogger, deferred, execErr, sentryCalls, sent, stderr, exitCode>>

lvars == <<handlers, record, lpc, hidx, received, handleRet>>

vars == <<pvars, svars, cvars, mvars, wvars, avars, lvars>>

\* what a step of the service leaves alone, and a step of the parser
notService == <<pvars, cvars, mvars, wvars, avars, lvars>>

notParser == <<svars, cvars, mvars, wvars, avars, lvars>>

notConcurrent == <<pvars, svars, mvars, wvars, avars, lvars>>

\* what a step of the MCP server outside the service leaves alone
notServer == <<pvars, svars, cvars, wvars, avars, lvars>>

\* what a step of main leaves alone
notMain == <<pvars, svars, cvars, mvars, wvars, lvars>>

\* what a step of the MultiHandler leaves alone
notLogging == <<pvars, svars, cvars, mvars, wvars, avars>>

----------------------------------------------------------------------------
(* Bounds and input alphabets *)

\* every string over CoreChars of at most MaxLen characters is an input
MaxLen == 4

\* longer inputs are assembled from at most MaxSegs path segments and at
\* most MaxAts '@'-introduced versions
MaxSegs == 3

MaxAts == 2

\* characters of the exhaustively generated inputs
CoreChars == {"a", "b", "/", "@", " "}

\* path segments and versions of the assembled inputs
Segs == {<<>>, <<"a">>, <<"b", "c">>}

Vers == {<<>>, <<"v">>, <<"v", "/", "1">>}

\* whitespace put around every input
Pads == {<<>>, <<"\t">>, <<"\n", " ">>}

\* defaultVersion values handed to ParseRef
Main == <<"m", "a", "i", "n">>

Defaults == {<<>>, Main}

SeqsUpTo(S, n) == UNION {[1..k -> S] : k \in 0..n}

\* the segments of ss with the character c between them
RECURSIVE Join(_, _)
Join(ss, c) ==
    IF ss = <<>> THEN <<>>
    ELSE IF Len(ss) = 1 THEN ss[1]
    ELSE ss[1] \o <<c>> \o Join(Tail(ss), c)

\* each version of vs, preceded by '@'
RECURSIVE AtEach(_)
AtEach(vs) == IF vs = <<>> THEN <<>> ELSE <<"@">> \o vs[1] \o AtEach(Tail(vs))

Assembled ==
    {Join(ss, "/") \o AtEach(vs) : ss \in SeqsUpTo(Segs, MaxSegs), vs \in SeqsUpTo(Vers, MaxAts)}

Inputs ==
    {p \o c \o s : p \in Pads, c \in SeqsUpTo(CoreChars, MaxLen) \cup Assembled, s \in Pads}

----------------------------------------------------------------------------
(* Go library functions used by the parser *)

\* mutant: only the blank is trimmed (strings.Trim(ref, " "))
IsSpace_BlankOnly(c) == c = " "

\* unicode.IsSpace on the Latin-1 range: '\t', '\n', '\v', '\f', '\r', ' ',
\* U+0085, U+00A0; the characters the model writes are the first three named
IsSpace(c) == c \in {" ", "\t", "\n", "\r"}

RECURSIVE TrimLeft(_)
TrimLeft(s) ==
    IF s = <<>> THEN <<>>
    ELSE IF IsSpace(Head(s)) THEN TrimLeft(Tail(s))
    ELSE s

RECURSIVE TrimRight(_)
TrimRight(s) ==
    IF s = <<>> THEN <<>>
    ELSE IF IsSpace(s[Len(s)]) THEN TrimRight(SubSeq(s, 1, Len(s) - 1))
    ELSE s

\* mutant: trailing whitespace is kept (strings.TrimLeft)
TrimSpace_LeftOnly(s) == TrimLeft(s)

\* strings.TrimSpace
TrimSpace(s) == TrimRight(TrimLeft(s))

\* strings.Contains(s, sep) for a one-character sep
Contains(s, sep) == \E i \in 1..Len(s) : s[i] = sep

\* mutant: strings.SplitN(s, sep, 2), which cuts at the first separator only
Split_N2(s, sep) ==
    IF ~Contains(s, sep) THEN <<s>>
    ELSE LET i == CHOOSE k \in 1..Len(s) :
                      /\ s[k] = sep
                      /\ \A j \in 1..(k - 1) : s[j] # sep
         IN <<SubSeq(s, 1, i - 1), SubSeq(s, i + 1, Len(s))>>

\* strings.Split(s, sep) for a one-character sep: the Count(s, sep) + 1
\* substrings between the separators, empty ones included
RECURSIVE Split(_, _)
Split(s, sep) ==
    IF ~Contains(s, sep) THEN <<s>>
    ELSE LET i == CHOOSE k \in 1..Len(s) :
                      /\ s[k] = sep
                      /\ \A j \in 1..(k - 1) : s[j] # sep
         IN <<SubSeq(s, 1, i - 1)>> \o Split(SubSeq(s, i + 1, Len(s)), sep)

\* the %s verb: the characters of s, as one string
RECURSIVE Str(_)
Str(s) == IF s = <<>> THEN "" ELSE Head(s) \o Str(Tail(s))

----------------------------------------------------------------------------
(* Values *)

Nil == <<>>

\* type Ref struct { Owner, Repo, Version string }
Ref(owner, repo, version) == [Owner |-> owner, Repo |-> repo, Version |-> version]

\* fmt.Errorf without %w: an error that carries its message
Errorf(msg) == [msg |-> msg, wrapped |-> Nil]

\* fmt.Errorf with a trailing %w: the message ends in the wrapped error's
\* message and Unwrap returns the wrapped error
ErrorfW(msg, err) == [msg |-> msg \o err.msg, wrapped |-> <<err>>]

\* a (*Ref, error) pair
RefOk(r) == [ref |-> <<r>>, err |-> Nil]
RefErr(e) == [ref |-> Nil, err |-> <<e>>]

----------------------------------------------------------------------------
(* The reference parser *)

\* ParseRef with one slip, for the mutants below:
\*   "blank"    the empty check returns nil, nil
\*   "segments" the repository path check is len(repoParts) < 2
\*   "version"  the last check forgets version == ""
\*   "rawecho"  the format errors quote the reference as it came, untrimmed
\*   "pathfirst" the repository path is split and counted before the
\*              version is asked for
\*   "filldefault" an empty version after '@' is replaced by the default
\*   "trimfields" owner, repo and version are each trimmed of whitespace
ParseRefWith(raw, reqVersion, defVersion, slip) ==
    LET ref == TrimSpace(raw) IN
    IF ref = <<>>
    THEN IF slip = "blank" THEN [ref |-> Nil, err |-> Nil]
         ELSE RefErr(Errorf("reference cannot be empty"))
    ELSE
    LET hasAt == Contains(ref, "@")
        parts == Split(ref, "@")
    IN
    IF hasAt /\ Len(parts) # 2
    THEN RefErr(Errorf("invalid reference format: expected 'owner/repo@version' or 'owner/repo', got '"
                       \o Str(IF slip = "rawecho" THEN raw ELSE ref) \o "'"))
    ELSE IF slip = "pathfirst" /\ Len(Split(IF hasAt THEN parts[1] ELSE ref, "/")) # 2
    THEN RefErr(Errorf("invalid repository path: expected 'owner/repo', got '"
                       \o Str(IF hasAt THEN parts[1] ELSE ref) \o "'"))
    ELSE IF ~hasAt /\ reqVersion
    THEN RefErr(Errorf("invalid reference format: expected 'owner/repo@version', got '"
                       \o Str(IF slip = "rawecho" THEN raw ELSE ref) \o "'"))
    ELSE
    LET repoPath == IF hasAt THEN parts[1] ELSE ref
        version == IF hasAt /\ ~(slip = "filldefault" /\ parts[2] = <<>>)
                   THEN parts[2] ELSE defVersion
        repoParts == Split(repoPath, "/")
    IN
    IF (slip # "segments" /\ Len(repoParts) # 2) \/ (slip = "segments" /\ Len(repoParts) < 2)
    THEN RefErr(Errorf("invalid repository path: expected 'owner/repo', got '"
                       \o Str(repoPath) \o "'"))
    ELSE
    LET owner == IF slip = "trimfields" THEN TrimSpace(repoParts[1]) ELSE repoParts[1]
        repo == IF slip = "trimfields" THEN TrimSpace(repoParts[2]) ELSE repoParts[2]
        vers == IF slip = "trimfields" THEN TrimSpace(version) ELSE version
    IN
    IF owner = <<>> \/ repo = <<>> \/ (slip # "version" /\ vers = <<>>)
    THEN RefErr(Errorf("owner, repo, and version must all be non-empty"))
    ELSE RefOk(Ref(owner, repo, vers))

ParseRef_BlankNilNil(raw, reqVersion, defVersion) ==
    ParseRefWith(raw, reqVersion, defVersion, "blank")

ParseRef_LooseSegments(raw, reqVersion, defVersion) ==
    ParseRefWith(raw, reqVersion, defVersion, "segments")

ParseRef_VersionUnchecked(raw, reqVersion, defVersion) ==
    ParseRefWith(raw, reqVersion, defVersion, "version")

ParseRef_RawEcho(raw, reqVersion, defVersion) ==
    ParseRefWith(raw, reqVersion, defVersion, "rawecho")

ParseRef_FillDefault(raw, reqVersion, defVersion) ==
    ParseRefWith(raw, reqVersion, defVersion, "filldefault")

ParseRef_TrimFields(raw, reqVersion, defVersion) ==
    ParseRefWith(raw, reqVersion, defVersion, "trimfields")

ParseRef_PathFirst(raw, reqVersion, defVersion) ==
    ParseRefWith(raw, reqVersion, defVersion, "pathfirst")

ParseRef(raw, reqVersion, defVersion) ==
    LET ref == TrimSpace(raw) IN
    IF ref = <<>> THEN RefErr(Errorf("reference cannot be empty"))
    ELSE
    LET hasAt == Contains(ref, "@")
        parts == Split(ref, "@")
    IN
    IF hasAt /\ Len(parts) # 2
    THEN RefErr(Errorf("invalid reference format: expected 'owner/repo@version' or 'owner/repo', got '"
                       \o Str(ref) \o "'"))
    ELSE IF ~hasAt /\ reqVersion
    THEN RefErr(Errorf("invalid reference format: expected 'owner/repo@version', got '"
                       \o Str(ref) \o "'"))
    ELSE
    LET repoPath == IF hasAt THEN parts[1] ELSE ref
        version == IF hasAt THEN parts[2] ELSE defVersion
        repoParts == Split(repoPath, "/")
    IN
    IF Len(repoParts) # 2
    THEN RefErr(Errorf("invalid repository path: expected 'owner/repo', got '"
                       \o Str(repoPath) \o "'"))
    ELSE
    LET owner == repoParts[1]
        repo == repoParts[2]
    IN
    IF owner = <<>> \/ repo = <<>> \/ version = <<>>
    THEN RefErr(Errorf("owner, repo, and version must all be non-empty"))
    ELSE RefOk(Ref(owner, repo, version))

\* mutant: an action reference without a version resolves to "main"
ParseActionRef_DefaultMain(ref) == ParseRef(ref, FALSE, Main)

ParseActionRef(ref) == ParseRef(ref, TRUE, <<>>)

\* mutant: the default branch is "master"
ParseRepoRef_Master(ref) == ParseRef(ref, FALSE, <<"m", "a", "s", "t", "e", "r">>)

ParseRepoRef(ref) == ParseRef(ref, FALSE, Main)

----------------------------------------------------------------------------
(* The raw-content fetcher *)

\* what one HTTP GET can come back with: a transport error and no response,
\* or a response with a status and a body whose reading succeeds or fails
Bodies == {"", "name: A", "name: B", "name: [bad"}

Texts == {"# A", "# B"}

Statuses == {404, 500, 204, 304}

TransportFailure ==
    [err |-> <<Errorf("dial tcp: connection refused")>>, status |-> 0,
     body |-> "", readErr |-> Nil]

Status(st) == [err |-> Nil, status |-> st, body |-> "Not Found", readErr |-> Nil]

Ok200(b) == [err |-> Nil, status |-> 200, body |-> b, readErr |-> Nil]

ReadFailure(b) ==
    [err |-> Nil, status |-> 200, body |-> b, readErr |-> <<Errorf("unexpected EOF")>>]

\* the answers to a request for an action file, and for a README
ActionResponses ==
    {TransportFailure} \cup {Status(st) : st \in Statuses}
        \cup {Ok200(b) : b \in Bodies} \cup {ReadFailure("name: A")}

ReadmeResponses ==
    {TransportFailure, Status(404), Status(500), ReadFailure("# A")}
        \cup {Ok200(b) : b \in Texts}

\* the URL FetchRawFile requests
RawURL(owner, repo, urlPath, filename) ==
    "https://raw.githubusercontent.com/" \o Str(owner) \o "/" \o Str(repo)
        \o "/" \o urlPath \o "/" \o filename

\* a ([]byte, error) pair: val is nil or the bytes
BytesOk(data) == [val |-> <<data>>, err |-> Nil]
BytesErr(e) == [val |-> Nil, err |-> <<e>>]

\* a (string, error) pair: val is always a string, "" with an error
StringOk(str) == [val |-> <<str>>, err |-> Nil]
StringErr(e) == [val |-> <<"">>, err |-> <<e>>]

\* mutant: every 2xx status counts as success
FetchRawFile_Any2xx(owner, repo, urlPath, filename, resp) ==
    LET url == RawURL(owner, repo, urlPath, filename) IN
    IF resp.err # Nil
    THEN BytesErr(ErrorfW("failed to fetch " \o filename \o ": ", resp.err[1]))
    ELSE IF resp.status < 200 \/ resp.status > 299
    THEN IF resp.status = 404
         THEN BytesErr(Errorf(filename \o " not found at " \o url \o " (status: 404)"))
         ELSE BytesErr(Errorf("failed to fetch " \o filename \o " from " \o url
                              \o " (status: " \o ToString(resp.status) \o ")"))
    ELSE IF resp.readErr # Nil
    THEN BytesErr(ErrorfW("failed to read " \o filename \o " response: ", resp.readErr[1]))
    ELSE BytesOk(resp.body)

\* mutant: the error of reading the body is dropped and what was read returned
FetchRawFile_IgnoreReadError(owner, repo, urlPath, filename, resp) ==
    LET url == RawURL(owner, repo, urlPath, filename) IN
    IF resp.err # Nil
    THEN BytesErr(ErrorfW("failed to fetch " \o filename \o ": ", resp.err[1]))
    ELSE IF resp.status # 200
    THEN IF resp.status = 404
         THEN BytesErr(Errorf(filename \o " not found at " \o url \o " (status: 404)"))
         ELSE BytesErr(Errorf("failed to fetch " \o filename \o " from " \o url
                              \o " (status: " \o ToString(resp.status) \o ")"))
    ELSE BytesOk(resp.body)

\* FetchRawFile, given what its GET came back with
FetchRawFile(owner, repo, urlPath, filename, resp) ==
    LET url == RawURL(owner, repo, urlPath, filename) IN
    IF resp.err # Nil
    THEN BytesErr(ErrorfW("failed to fetch " \o filename \o ": ", resp.err[1]))
    ELSE IF resp.status # 200
    THEN IF resp.status = 404
         THEN BytesErr(Errorf(filename \o " not found at " \o url \o " (status: 404)"))
         ELSE BytesErr(Errorf("failed to fetch " \o filename \o " from " \o url
                              \o " (status: " \o ToString(resp.status) \o ")"))
    ELSE IF resp.readErr # Nil
    THEN BytesErr(ErrorfW("failed to read " \o filename \o " response: ", resp.readErr[1]))
    ELSE BytesOk(resp.body)

\* the candidate filenames, in order of preference
actionFilenames == <<"action.yml", "action.yaml">>

readmeNames == <<"README.md", "readme.md", "Readme.md", "README", "readme">>

\* yaml.Unmarshal into a map[string]interface{}, on the bodies of the model:
\* an empty document leaves the map nil and reports no error
YamlUnmarshal(data) ==
    IF data = "name: [bad" THEN [val |-> Nil, err |-> <<Errorf("yaml: did not find expected ',' or ']'")>>]
    ELSE IF data = "" THEN [val |-> Nil, err |-> Nil]
    ELSE [val |-> <<[yaml |-> data]>>, err |-> Nil]

ParseActionYAML(data) ==
    LET r == YamlUnmarshal(data) IN
    IF r.err # Nil THEN [val |-> Nil, err |-> <<ErrorfW("failed to parse YAML: ", r.err[1])>>]
    ELSE [val |-> r.val, err |-> Nil]

\* which of the two fallback loops an operation runs
IsActionOp(op) == op \in {"GetActionParameters", "FetchActionYAML"}

Candidates(op) == IF IsActionOp(op) THEN actionFilenames ELSE readmeNames

\* mutant: the branch-style prefix for both retrievals
UrlPath_AlwaysHeads(op, version) == "refs/heads/" \o Str(version)

UrlPath(op, version) ==
    IF IsActionOp(op) THEN "refs/tags/" \o Str(version) ELSE "refs/heads/" \o Str(version)

\* the error returned once every candidate has failed
NotFoundError(op, r, last) ==
    LET coords == Str(r.Owner) \o "/" \o Str(r.Repo) \o "@" \o Str(r.Version) IN
    IF IsActionOp(op)
    THEN IF last # Nil
         THEN ErrorfW("action.yml or action.yaml not found for " \o coords \o ": ", last[1])
         ELSE Errorf("action.yml or action.yaml not found for " \o coords)
    ELSE IF last # Nil
         THEN ErrorfW("README not found in repository " \o coords \o ": ", last[1])
         ELSE Errorf("README not found in repository " \o coords)

\* the fallback fetch returns a fetched candidate: FetchActionYAML its
\* bytes, FetchReadme string(data)
FetchedOk(op, data) == IF IsActionOp(op) THEN BytesOk(data) ELSE StringOk(data)

\* the fallback fetch returns after every candidate has failed
FetchedErr(op, r, last) ==
    IF IsActionOp(op) THEN BytesErr(NotFoundError(op, r, last))
    ELSE StringErr(NotFoundError(op, r, last))

\* what the operation makes of the fallback fetch's return: the Fetch*
\* operations are the fetch itself, GetReadme passes content and error on,
\* GetActionParameters passes the error on or decodes the bytes
AfterFetch(op, f) ==
    IF op = "GetActionParameters"
    THEN IF f.err # Nil THEN [val |-> Nil, err |-> f.err] ELSE ParseActionYAML(f.val[1])
    ELSE IF op = "GetReadme"
    THEN IF f.err # Nil THEN StringErr(f.err[1]) ELSE StringOk(f.val[1])
    ELSE f

----------------------------------------------------------------------------
(* One service operation as a state machine: the call, then one step per   *)
(* HTTP request issued and one per HTTP request coming back.               *)

\* reference strings handed to GetActionParameters and GetReadme
ServiceRefs ==
    { <<"a", "/", "b", "@", "v">>,
      <<" ", "a", "/", "b", "@", "v", "\n">>,
      <<"a", "/", "b">>,
      <<"b", "/", "a", "@", "m", "a", "i", "n">>,
      <<>>,
      <<" ", "\n">>,
      <<"a", "@", "v">>,
      <<"a", "/", "b", "@">>,
      <<"a", "/", "b", "/", "c", "@", "v">>,
      <<"a", "/", "b", "@", "v", "@", "w">> }

\* coordinates handed to FetchActionYAML and FetchReadme directly
ServiceCoords ==
    { Ref(<<"a">>, <<"b">>, <<"v">>), Ref(<<"b">>, <<"a">>, <<"m", "a", "i", "n">>) }

NoCall == [op |-> "", ref |-> <<>>]

NoRef == Ref(<<>>, <<>>, <<>>)

NoResult == [val |-> Nil, err |-> Nil]

InitService ==
    /\ call = NoCall
    /\ spc = "idle"
    /\ cref = NoRef
    /\ idx = 0
    /\ lastErr = Nil
    /\ rawRet = NoResult
    /\ remote = <<>>
    /\ requests = <<>>
    /\ fetched = NoResult
    /\ result = NoResult

\* the answers the CDN holds for the candidates of one call, in their order
Remotes(op) ==
    [1..Len(Candidates(op)) -> IF IsActionOp(op) THEN ActionResponses ELSE ReadmeResponses]

\* var lastErr error; the loop starts at the first candidate, and the CDN
\* holds one of the answers rems for the candidates
StartFetchFrom(op, r, rems) ==
    /\ cref' = r
    /\ idx' = 1
    /\ lastErr' = Nil
    /\ remote' \in rems
    /\ spc' = "get"
    /\ UNCHANGED <<rawRet, requests, fetched, result>>

StartFetch(op, r) == StartFetchFrom(op, r, Remotes(op))

\* the parser rejected the reference: the operation returns res at once
Reject(res) ==
    /\ result' = res
    /\ spc' = "done"
    /\ UNCHANGED <<cref, idx, lastErr, rawRet, remote, requests, fetched>>

GetActionParameters(actionRef) ==
    /\ spc = "idle"
    /\ call' = [op |-> "GetActionParameters", ref |-> actionRef]
    /\ LET p == ParseActionRef(actionRef) IN
       IF p.err # Nil
       THEN Reject([val |-> Nil,
                    err |-> <<ErrorfW("invalid action reference: ", p.err[1])>>])
       ELSE StartFetch("GetActionParameters", p.ref[1])
    /\ UNCHANGED notService

(* The repository behind the CDN: the files a/b holds at one ref, which is *)
(* a branch, a tag or a commit.                                            *)

NoRepository == [ref |-> <<>>, kind |-> "", files |-> <<>>]

\* the README files of the repository at the ref: none, one, or two
ReadmeFiles ==
    {<<>>} \cup {[n \in {name} |-> "# A"] : name \in {"README.md", "Readme.md", "readme"}}
           \cup {[n \in {"README.md", "README"} |-> IF n = "README" THEN "# B" ELSE "# A"]}

Repositories ==
    [ref : {<<"v">>, Main}, kind : {"branch", "tag", "commit"}, files : ReadmeFiles]

\* the path under which raw.githubusercontent.com serves a ref
RefPath(kind, ref) ==
    IF kind = "tag" THEN "refs/tags/" \o Str(ref)
    ELSE IF kind = "branch" THEN "refs/heads/" \o Str(ref)
    ELSE Str(ref)

\* the CDN's answer to a GET: the file when the URL is that of a file the
\* repository holds at the ref, 404 otherwise
CDN(url) ==
    LET here == {n \in DOMAIN repository.files :
                    url = RawURL(<<"a">>, <<"b">>,
                                 RefPath(repository.kind, repository.ref), n)}
    IN IF here # {} THEN Ok200(repository.files[CHOOSE n \in here : TRUE])
       ELSE Status(404)

\* the answers of the CDN to the README candidates of the reference r
HostedAnswers(r) ==
    {[i \in 1..Len(readmeNames) |->
         CDN(RawURL(r.Owner, r.Repo, UrlPath("GetReadme", r.Version), readmeNames[i]))]}

\* the answers GetReadme may meet: those of the repository when there is
\* one, any answers otherwise
ReadmeAnswers(r) ==
    IF repository = NoRepository THEN Remotes("GetReadme") ELSE HostedAnswers(r)


GetReadme(repoRef) ==
    /\ spc = "idle"
    /\ call' = [op |-> "GetReadme", ref |-> repoRef]
    /\ LET p == ParseRepoRef(repoRef) IN
       IF p.err # Nil
       THEN Reject(StringErr(ErrorfW("invalid repository reference: ", p.err[1])))
       ELSE StartFetchFrom("GetReadme", p.ref[1], ReadmeAnswers(p.ref[1]))
    /\ UNCHANGED notService

FetchActionYAML(owner, repo, version) ==
    /\ spc = "idle"
    /\ call' = [op |-> "FetchActionYAML", ref |-> <<>>]
    /\ StartFetch("FetchActionYAML", Ref(owner, repo, version))
    /\ UNCHANGED notService

FetchReadme(owner, repo, ref) ==
    /\ spc = "idle"
    /\ call' = [op |-> "FetchReadme", ref |-> <<>>]
    /\ StartFetch("FetchReadme", Ref(owner, repo, ref))
    /\ UNCHANGED notService

\* s.httpClient.Get(url) for the candidate the loop is at
HttpGet ==
    /\ spc = "get"
    /\ requests' = Append(requests,
                          RawURL(cref.Owner, cref.Repo, UrlPath(call.op, cref.Version),
                                 Candidates(call.op)[idx]))
    /\ spc' = "wait"
    /\ UNCHANGED <<call, cref, idx, lastErr, rawRet, remote, fetched, result>>
    /\ UNCHANGED notService

\* data, err := s.FetchRawFile(owner, repo, urlPath, filename) for the
\* candidate the loop is at
RawFetch ==
    FetchRawFile(cref.Owner, cref.Repo, UrlPath(call.op, cref.Version),
                 Candidates(call.op)[idx], remote[idx])

\* the fallback fetch returns f, and the operation what it makes of f
Return(f) ==
    /\ fetched' = f
    /\ result' = AfterFetch(call.op, f)
    /\ spc' = "done"

\* HttpReturn with one slip in the loop, for the mutants below:
\*   "nofallback" the first failure is returned, no other candidate is tried
\*   "firsterr"   lastErr keeps the first failure
\*   "lastwins"   a success does not leave the loop, the last one is returned
\*   "only404"    only a 404 moves on to the next candidate, any other
\*                failure leaves the loop
\*   "redecode"   GetActionParameters moves on to the next candidate when
\*                the fetched body does not decode
\*   "retry"      after the last candidate has failed the loop starts over
\*                at the first candidate
HttpReturnWith(slip) ==
    /\ spc = "wait"
    /\ LET names == Candidates(call.op)
           got == RawFetch
           last == IF slip = "firsterr" /\ lastErr # Nil THEN lastErr ELSE got.err
       IN IF got.err = Nil
          THEN IF slip = "lastwins" /\ idx < Len(names)
               THEN /\ fetched' = FetchedOk(call.op, got.val[1])
                    /\ idx' = idx + 1
                    /\ spc' = "get"
                    /\ UNCHANGED <<lastErr, result>>
               ELSE IF /\ slip = "redecode" /\ idx < Len(names)
                       /\ call.op = "GetActionParameters"
                       /\ ParseActionYAML(got.val[1]).err # Nil
               THEN /\ idx' = idx + 1
                    /\ spc' = "get"
                    /\ UNCHANGED <<lastErr, fetched, result>>
               ELSE /\ Return(FetchedOk(call.op, got.val[1]))
                    /\ UNCHANGED <<idx, lastErr>>
          ELSE /\ lastErr' = last
               /\ idx' = IF slip = "retry" /\ idx = Len(names) THEN 1 ELSE idx + 1
               /\ IF \/ /\ idx < Len(names)
                        /\ slip # "nofallback"
                        /\ slip = "only404" => remote[idx].err = Nil /\ remote[idx].status = 404
                     \/ slip = "retry"
                  THEN spc' = "get" /\ UNCHANGED <<fetched, result>>
                  ELSE IF slip = "lastwins" /\ fetched # NoResult
                  THEN Return(fetched)
                  ELSE Return(FetchedErr(call.op, cref, last))
    /\ rawRet' = RawFetch
    /\ UNCHANGED <<call, cref, remote, requests>>
    /\ UNCHANGED notService

HttpReturn_NoFallback == HttpReturnWith("nofallback")

HttpReturn_FirstErr == HttpReturnWith("firsterr")

HttpReturn_LastWins == HttpReturnWith("lastwins")

HttpReturn_Only404 == HttpReturnWith("only404")

HttpReturn_Redecode == HttpReturnWith("redecode")

HttpReturn_Retry == HttpReturnWith("retry")

\* the GET comes back: the rest of FetchRawFile, then the loop body, and
\* after the last candidate the code that follows the loop
HttpReturn ==
    /\ spc = "wait"
    /\ LET names == Candidates(call.op)
           got == RawFetch
       IN IF got.err = Nil
          THEN /\ Return(FetchedOk(call.op, got.val[1]))
               /\ UNCHANGED <<idx, lastErr>>
          ELSE /\ lastErr' = got.err
               /\ idx' = idx + 1
               /\ IF idx < Len(names)
                  THEN spc' = "get" /\ UNCHANGED <<fetched, result>>
                  ELSE Return(FetchedErr(call.op, cref, got.err))
    /\ rawRet' = RawFetch
    /\ UNCHANGED <<call, cref, remote, requests>>
    /\ UNCHANGED notService

Next ==
    \/ \E r \in ServiceRefs : GetActionParameters(r)
    \/ \E r \in ServiceRefs : GetReadme(r)
    \/ \E c \in ServiceCoords : FetchActionYAML(c.Owner, c.Repo, c.Version)
    \/ \E c \in ServiceCoords : FetchReadme(c.Owner, c.Repo, c.Version)
    \/ HttpGet
    \/ HttpReturn

----------------------------------------------------------------------------
(* Concurrent callers of one ActionsService: each caller runs one          *)
(* resolve-then-fetch operation; the steps of the callers interleave at    *)
(* every HTTP request, every HTTP answer and the code after the loop.      *)

Callers == {1, 2}

\* NewActionsService: the service holds its HTTP client and nothing else
NewActionsService == [httpClient |-> "&http.Client{}"]

\* a caller before its call: the locals of the operation it will run
IdleCaller ==
    [op |-> "", ref |-> <<>>, spc |-> "idle", cref |-> NoRef, idx |-> 0,
     lastErr |-> Nil, remote |-> <<>>, requests |-> <<>>,
     fetched |-> NoResult, result |-> NoResult]

InitConcurrent ==
    /\ service = NewActionsService
    /\ thr = [p \in Callers |-> IdleCaller]

\* the references the concurrent callers pass, and the answers they meet
ConcurrentRefs == { <<"a", "/", "b", "@", "v">>, <<"a", "/", "b">> }

ConcurrentRemotes(op) ==
    [1..Len(Candidates(op)) ->
        IF IsActionOp(op) THEN {Status(404), TransportFailure, Ok200("name: A")}
        ELSE {Status(500), Ok200("# A")}]

\* mutant: lastErr is one variable of the package, shared by all callers
LastErrOwner_Package(p) == 1

\* var lastErr error is a local of FetchActionYAML / FetchReadme: each call
\* has its own
LastErrOwner(p) == p

\* the caller's call begins: the reference is resolved, and rejected or
\* handed to the fallback fetch
ConcurrentCall(p, op, ref, parse, rejection) ==
    /\ thr[p].spc = "idle"
    /\ IF parse.err # Nil
       THEN thr' = [thr EXCEPT ![p] = [IdleCaller EXCEPT !.op = op, !.ref = ref,
                                                          !.spc = "done",
                                                          !.result = rejection]]
       ELSE \E rem \in ConcurrentRemotes(op) :
                thr' = [thr EXCEPT ![p] = [IdleCaller EXCEPT !.op = op, !.ref = ref,
                                                              !.spc = "get",
                                                              !.cref = parse.ref[1],
                                                              !.idx = 1,
                                                              !.remote = rem],
                                   ![LastErrOwner(p)].lastErr = Nil]
    /\ UNCHANGED service
    /\ UNCHANGED notConcurrent

ConcurrentGetActionParameters(p, actionRef) ==
    LET parse == ParseActionRef(actionRef) IN
    ConcurrentCall(p, "GetActionParameters", actionRef, parse,
                   IF parse.err = Nil THEN NoResult
                   ELSE [val |-> Nil,
                         err |-> <<ErrorfW("invalid action reference: ", parse.err[1])>>])

ConcurrentGetReadme(p, repoRef) ==
    LET parse == ParseRepoRef(repoRef) IN
    ConcurrentCall(p, "GetReadme", repoRef, parse,
                   IF parse.err = Nil THEN NoResult
                   ELSE StringErr(ErrorfW("invalid repository reference: ", parse.err[1])))

\* s.httpClient.Get(url) by caller p
ConcurrentHttpGet(p) ==
    LET t == thr[p] IN
    /\ t.spc = "get"
    /\ thr' = [thr EXCEPT ![p].requests =
                              Append(@, RawURL(t.cref.Owner, t.cref.Repo,
                                               UrlPath(t.op, t.cref.Version),
                                               Candidates(t.op)[t.idx])),
                          ![p].spc = "wait"]
    /\ UNCHANGED service
    /\ UNCHANGED notConcurrent

\* caller p's GET comes back: the rest of FetchRawFile and the loop body
ConcurrentHttpReturn(p) ==
    LET t == thr[p]
        names == Candidates(t.op)
        got == FetchRawFile(t.cref.Owner, t.cref.Repo, UrlPath(t.op, t.cref.Version),
                            names[t.idx], t.remote[t.idx])
    IN
    /\ t.spc = "wait"
    /\ IF got.err = Nil
       THEN thr' = [thr EXCEPT ![p].fetched = FetchedOk(t.op, got.val[1]),
                               ![p].result = AfterFetch(t.op, FetchedOk(t.op, got.val[1])),
                               ![p].spc = "done"]
       ELSE thr' = [thr EXCEPT ![p].idx = @ + 1,
                               ![p].spc = IF t.idx < Len(names) THEN "get" ELSE "after",
                               ![LastErrOwner(p)].lastErr = got.err]
    /\ UNCHANGED service
    /\ UNCHANGED notConcurrent

\* the code after caller p's loop: every candidate has failed
ConcurrentAfterLoop(p) ==
    LET t == thr[p]
        f == FetchedErr(t.op, t.cref, thr[LastErrOwner(p)].lastErr)
    IN
    /\ t.spc = "after"
    /\ thr' = [thr EXCEPT ![p].fetched = f,
                          ![p].result = AfterFetch(t.op, f),
                          ![p].spc = "done"]
    /\ UNCHANGED service
    /\ UNCHANGED notConcurrent

NextConcurrent ==
    \/ \E p \in Callers, r \in ConcurrentRefs : ConcurrentGetActionParameters(p, r)
    \/ \E p \in Callers, r \in ConcurrentRefs : ConcurrentGetReadme(p, r)
    \/ \E p \in Callers : ConcurrentHttpGet(p)
    \/ \E p \in Callers : ConcurrentHttpReturn(p)
    \/ \E p \in Callers : ConcurrentAfterLoop(p)

----------------------------------------------------------------------------
(* The MCP server: tool registration, the Sentry tracing wrapper and the   *)
(* get_action_parameters handler.                                          *)

\* type GetActionParametersArgs struct { ActionRef string `json:"actionRef"` }
GetActionParametersArgs(actionRef) ==
    [type |-> "GetActionParametersArgs", ActionRef |-> actionRef]

\* type MockArgs struct { Name string `json:"name"`; Count int `json:"count"` }
MockArgs(name, count) == [type |-> "MockArgs", Name |-> name, Count |-> count]

\* the exported fields of an argument struct, as reflection walks them
StructFields(args) ==
    IF args.type = "GetActionParametersArgs"
    THEN << [tag |-> "actionRef", kind |-> "string", value |-> Str(args.ActionRef)] >>
    ELSE << [tag |-> "name", kind |-> "string", value |-> args.Name],
            [tag |-> "count", kind |-> "int", value |-> args.Count] >>

\* strings.ToLower on the field names of the model
ToLower(str) == IF str = "actionRef" THEN "actionref" ELSE str

\* a *mcp.CallToolRequest: nil, or a request, which has the fields Session,
\* Params and Extra
CallToolRequest(tool) == [Session |-> "stdio", Params |-> [Name |-> tool], Extra |-> Nil]

\* mcp.TextContent and mcp.CallToolResult
TextContent(text) == [type |-> "*mcp.TextContent", Text |-> text]

CallToolResult(content) == [Content |-> content]

\* span.SetData(key, value) on the span's data
SetData(d, key, value) ==
    [k \in DOMAIN d \cup {key} |-> IF k = key THEN value ELSE d[k]]

\* sentry.StartSpan(ctx, op): a span that is neither named nor finished
NoSpan == [Op |-> "", Description |-> "", Data |-> <<>>, Status |-> "", finished |-> FALSE]

StartSpan(op) == [NoSpan EXCEPT !.Op = op]

\* setRequestMetadata: the ID and SessionID fields of the request, when it
\* has them and they are not empty
setRequestMetadata(d, req) ==
    LET d1 == IF "ID" \in DOMAIN req /\ req.ID # ""
              THEN SetData(d, "mcp.request.id", req.ID) ELSE d
    IN IF "SessionID" \in DOMAIN req /\ req.SessionID # ""
       THEN SetData(d1, "mcp.session.id", req.SessionID) ELSE d1

\* setToolArguments: one attribute per exported field, named after the
\* lower-cased JSON tag; an empty string is not recorded
RECURSIVE SetFields(_, _, _)
SetFields(d, fields, i) ==
    IF i > Len(fields) THEN d
    ELSE LET f == fields[i]
             attrKey == "mcp.request.argument." \o ToLower(f.tag)
         IN SetFields(IF f.kind = "string" /\ f.value = "" THEN d
                      ELSE SetData(d, attrKey, f.value),
                      fields, i + 1)

setToolArguments(d, args) == SetFields(d, StructFields(args), 1)

\* getContentType
getContentType(content) == IF content.type = "*mcp.TextContent" THEN "text" ELSE content.type

\* json.Marshal of a list of strings
RECURSIVE JoinQuoted(_, _)
JoinQuoted(strs, i) ==
    IF i > Len(strs) THEN ""
    ELSE (IF i > 1 THEN "," ELSE "") \o "\"" \o strs[i] \o "\"" \o JoinQuoted(strs, i + 1)

MarshalStrings(strs) == "[" \o JoinQuoted(strs, 1) \o "]"

\* setResultMetadata: the number of content items, and their types
setResultMetadata(d, res) ==
    LET contentCount == Len(res.Content)
        d1 == SetData(d, "mcp.tool.result.content_count", contentCount)
        contentTypes == [i \in 1..contentCount |-> getContentType(res.Content[i])]
    IN IF contentCount > 0
       THEN SetData(d1, "mcp.tool.result.content", MarshalStrings(contentTypes))
       ELSE d1

\* a (*mcp.CallToolResult, Out, error) triple; result, data and err are nil
\* (length 0) or present (length 1)
Triple(res, data, err) == [result |-> res, data |-> data, err |-> err]

NoTriple == Triple(Nil, Nil, Nil)

NoToolCall == [tool |-> "", handler |-> "", req |-> Nil, args |-> MockArgs("", 0)]

InitMCP ==
    /\ tools = {}
    /\ tpc = "new"
    /\ tcall = NoToolCall
    /\ span = NoSpan
    /\ invoked = <<>>
    /\ hret = NoTriple
    /\ tret = NoTriple
    /\ captured = <<>>

\* the one mcp.AddTool of RegisterTools: the tool's name, the argument its
\* args type declares, and the handler, wrapped by WithSentryTracing
GetActionParametersTool ==
    [Name |-> "get_action_parameters", argument |-> "actionRef",
     handler |-> "handleGetActionParameters"]

RegisterTools ==
    /\ tpc = "new"
    /\ tools' = tools \cup {GetActionParametersTool}
    /\ tpc' = "serving"
    /\ UNCHANGED <<tcall, span, invoked, hret, tret, captured>>
    /\ UNCHANGED notServer

\* the tools the README documents, which a client may ask for
DocumentedTools == {"get_action_parameters", "get_readme"}

\* a client calls a tool by name: when it is registered, the server hands
\* the request and the decoded arguments to the tool's wrapped handler
CallTool(name, actionRef) ==
    /\ tpc = "serving"
    /\ \E t \in tools : t.Name = name
    /\ tcall' = [tool |-> name,
                 handler |-> (CHOOSE t \in tools : t.Name = name).handler,
                 req |-> <<CallToolRequest(name)>>,
                 args |-> GetActionParametersArgs(actionRef)]
    /\ tpc' = "wrapper"
    /\ UNCHANGED <<tools, span, invoked, hret, tret, captured>>
    /\ UNCHANGED notServer

\* the arguments and requests of the wrapper's tests, and a nil request
MockArgsSet == {MockArgs("test", 42), MockArgs("test_arg", 123), MockArgs("", 0)}

MockRequests == {Nil, <<[Session |-> Nil, Params |-> Nil, Extra |-> Nil]>>}

\* what a wrapped handler may return: the returns of the tests' handlers,
\* and a result together with an error
MockReturns ==
    { Triple(<<CallToolResult(<<TextContent("Success")>>)>>, <<"status: ok">>, Nil),
      Triple(<<CallToolResult(<<>>)>>, Nil, Nil),
      Triple(Nil, Nil, Nil),
      Triple(Nil, Nil, <<Errorf("tool execution failed")>>),
      Triple(<<CallToolResult(<<TextContent("Partial")>>)>>, <<"status: failed">>,
             <<Errorf("wrong name argument")>>) }

\* WithSentryTracing("test_tool", mockHandler) called directly, as the tests do
CallWrapped(req, args) ==
    /\ tpc \in {"new", "serving"}
    /\ tcall' = [tool |-> "test_tool", handler |-> "mockHandler", req |-> req, args |-> args]
    /\ tpc' = "wrapper"
    /\ UNCHANGED <<tools, span, invoked, hret, tret, captured>>
    /\ UNCHANGED notServer

\* the wrapper up to the call of the handler: the span is started and
\* described, and the handler invoked with req and args
WithSentryTracing ==
    /\ tpc = "wrapper"
    /\ LET d0 == [k \in {"mcp.method.name", "mcp.tool.name", "mcp.transport",
                         "network.transport", "network.protocol.version",
                         "sentry.origin", "sentry.source"} |->
                     CASE k = "mcp.method.name" -> "tools/call"
                       [] k = "mcp.tool.name" -> tcall.tool
                       [] k = "mcp.transport" -> "stdio"
                       [] k = "network.transport" -> "pipe"
                       [] k = "network.protocol.version" -> "2.0"
                       [] k = "sentry.origin" -> "auto.function.mcp_server"
                       [] k = "sentry.source" -> "route"]
           d1 == IF tcall.req # Nil THEN setRequestMetadata(d0, tcall.req[1]) ELSE d0
       IN span' = [StartSpan("mcp.server") EXCEPT
                       !.Description = "tools/call " \o tcall.tool,
                       !.Data = setToolArguments(d1, tcall.args)]
    /\ invoked' = Append(invoked, [req |-> tcall.req, args |-> tcall.args])
    /\ tpc' = "handler"
    /\ UNCHANGED <<tools, tcall, hret, tret, captured>>
    /\ UNCHANGED notServer

\* mutant: the handler hands every actionRef to the service, unvalidated
handleGetActionParameters_Unchecked ==
    /\ tpc = "handler" /\ tcall.handler = "handleGetActionParameters"
    /\ spc = "idle"
    /\ GetActionParameters(tcall.args.ActionRef)

\* handleGetActionParameters up to its call of the service: an empty
\* actionRef is refused, any other is handed to GetActionParameters
handleGetActionParameters ==
    /\ tpc = "handler" /\ tcall.handler = "handleGetActionParameters"
    /\ spc = "idle"
    /\ IF tcall.args.ActionRef = <<>>
       THEN /\ hret' = Triple(Nil, Nil, <<Errorf("actionRef is required")>>)
            /\ tpc' = "handled"
            /\ UNCHANGED <<tools, tcall, span, invoked, tret, captured>>
            /\ UNCHANGED notServer
       ELSE GetActionParameters(tcall.args.ActionRef)

\* the name line of the text output, when params["name"] is a string
NameLine(params) ==
    IF params = Nil THEN ""
    ELSE IF params[1].yaml = "name: A" THEN "Name: A\n"
    ELSE IF params[1].yaml = "name: B" THEN "Name: B\n"
    ELSE ""

\* handleGetActionParameters after the service has returned
handleGetActionParametersReturn ==
    /\ tpc = "handler" /\ tcall.handler = "handleGetActionParameters"
    /\ spc = "done"
    /\ IF result.err # Nil
       THEN hret' = Triple(Nil, Nil,
                           <<ErrorfW("failed to get action parameters: ", result.err[1])>>)
       ELSE hret' = Triple(<<CallToolResult(<<TextContent(
                                "Action: " \o Str(tcall.args.ActionRef) \o "\n\n"
                                    \o NameLine(result.val)
                                    \o "\nFull action.yml structure returned in structured data.")>>)>>,
                           <<result.val>>, Nil)
    /\ tpc' = "handled"
    /\ UNCHANGED <<tools, tcall, span, invoked, tret, captured>>
    /\ UNCHANGED notServer

\* a handler of the wrapper's tests runs and returns
mockHandler ==
    /\ tpc = "handler" /\ tcall.handler = "mockHandler"
    /\ hret' \in MockReturns
    /\ tpc' = "handled"
    /\ UNCHANGED <<tools, tcall, span, invoked, tret, captured>>
    /\ UNCHANGED notServer

\* the wrapper after the handler has returned, with one slip for the
\* mutants below:
\*   "dropdata" on the error path the wrapper returns nil, nil, err
\*   "resultok" the outcome is judged by the result: a handler that returns
\*              a result is recorded as ok, whatever its error
WithSentryTracingReturnWith(slip) ==
    /\ tpc = "handled"
    /\ IF hret.err # Nil /\ ~(slip = "resultok" /\ hret.result # Nil)
       THEN /\ span' = [span EXCEPT !.Status = "internal_error",
                                    !.Data = SetData(@, "mcp.tool.result.is_error", TRUE),
                                    !.finished = TRUE]
            /\ captured' = Append(captured, hret.err[1])
       ELSE /\ span' = [span EXCEPT !.Status = "ok",
                                    !.Data = LET d == SetData(@, "mcp.tool.result.is_error", FALSE)
                                             IN IF hret.result # Nil
                                                THEN setResultMetadata(d, hret.result[1])
                                                ELSE d,
                                    !.finished = TRUE]
            /\ UNCHANGED captured
    /\ tret' = IF slip = "dropdata" /\ hret.err # Nil THEN Triple(Nil, Nil, hret.err)
               ELSE hret
    /\ tpc' = "returned"
    /\ UNCHANGED <<tools, tcall, invoked, hret>>
    /\ UNCHANGED notServer

WithSentryTracingReturn_DropData == WithSentryTracingReturnWith("dropdata")

WithSentryTracingReturn_ResultOk == WithSentryTracingReturnWith("resultok")

\* the wrapper after the handler has returned: status and error capture,
\* return result, data, err, and the deferred span.Finish()
WithSentryTracingReturn ==
    /\ tpc = "handled"
    /\ IF hret.err # Nil
       THEN /\ span' = [span EXCEPT !.Status = "internal_error",
                                    !.Data = SetData(@, "mcp.tool.result.is_error", TRUE),
                                    !.finished = TRUE]
            /\ captured' = Append(captured, hret.err[1])
       ELSE /\ span' = [span EXCEPT !.Status = "ok",
                                    !.Data = LET d == SetData(@, "mcp.tool.result.is_error", FALSE)
                                             IN IF hret.result # Nil
                                                THEN setResultMetadata(d, hret.result[1])
                                                ELSE d,
                                    !.finished = TRUE]
            /\ UNCHANGED captured
    /\ tret' = hret
    /\ tpc' = "returned"
    /\ UNCHANGED <<tools, tcall, invoked, hret>>
    /\ UNCHANGED notServer

NextMCP ==
    \/ RegisterTools
    \/ \E name \in DocumentedTools, r \in ServiceRefs : CallTool(name, r)
    \/ \E req \in MockRequests, args \in MockArgsSet : CallWrapped(req, args)
    \/ WithSentryTracing
    \/ handleGetActionParameters
    \/ HttpGet
    \/ HttpReturn
    \/ handleGetActionParametersReturn
    \/ mockHandler
    \/ WithSentryTracingReturn

----------------------------------------------------------------------------
(* The process: main reads TELEMETRY_ENABLED, sets Sentry and the default  *)
(* logger up unless it is "false", runs the CLI and exits.                  *)

\* values TELEMETRY_ENABLED may hold; "" is what os.Getenv returns when the
\* variable is not set
EnvValues == {"", "false", "true", "FALSE", "0", "1", "no"}

\* what cmd.Execute may return: nil, or the error of the command
ExecuteErrors ==
    {Errorf("unknown command \"serve\" for \"github-actions-utils-cli\""),
     Errorf("server is closing: EOF"),
     Errorf("context canceled")}

\* what sentry.Init may return with main's options
InitErrors == {Nil, <<Errorf("[Sentry] DsnParseError: invalid scheme")>>}

\* the handler behind slog.Default() of a process that never called SetDefault
GoDefaultLogger == <<"defaultHandler">>

\* mutant: telemetry is switched off by TELEMETRY_ENABLED=0
TelemetryEnabled_ZeroDisables(sentryEnabled) == sentryEnabled # "0"

\* if sentryEnabled != "false"
TelemetryEnabled(sentryEnabled) == sentryEnabled # "false"

\* the process at its start, with TELEMETRY_ENABLED = e
ProcessStart(e) ==
    /\ env = e
    /\ mpc = "start"
    /\ client = Nil
    /\ defaultLogger = GoDefaultLogger
    /\ deferred = <<>>
    /\ execErr = Nil
    /\ sentryCalls = <<>>
    /\ sent = <<>>
    /\ stderr = <<>>
    /\ exitCode = -1

InitProcess == ProcessStart("")

\* main up to cmd.Execute: the telemetry block, or nothing
MainSetup ==
    /\ mpc = "start"
    /\ IF TelemetryEnabled(env)
       THEN \E err \in InitErrors :
                /\ client' = IF err = Nil THEN <<"production">> ELSE Nil
                /\ stderr' = IF err # Nil THEN Append(stderr, "sentry.Init: " \o err[1].msg \o "\n")
                              ELSE stderr
                /\ defaultLogger' = <<"sentryHandler", "terminalHandler">>
                /\ deferred' = <<"sentry.Flush">>
       ELSE UNCHANGED <<client, stderr, defaultLogger, deferred>>
    /\ mpc' = "execute"
    /\ UNCHANGED <<env, execErr, sentryCalls, sent, exitCode>>
    /\ UNCHANGED notMain

\* cmd.Execute() runs the command and returns
Execute ==
    /\ mpc = "execute"
    /\ execErr' \in {Nil} \cup {<<e>> : e \in ExecuteErrors}
    /\ mpc' = "executed"
    /\ UNCHANGED <<env, client, defaultLogger, deferred, sentryCalls, sent, stderr, exitCode>>
    /\ UNCHANGED notMain

\* cmd.Execute returned an error: it is captured (a hub without a client
\* drops what it is given), Sentry flushed, the error printed, and os.Exit(1)
\* ends the process without running deferred calls
MainFail ==
    /\ mpc = "executed" /\ execErr # Nil
    /\ sentryCalls' = sentryCalls \o <<"CaptureException", "Flush">>
    /\ sent' = IF client # Nil THEN Append(sent, execErr[1]) ELSE sent
    /\ stderr' = Append(stderr, "Error: " \o execErr[1].msg \o "\n")
    /\ exitCode' = 1
    /\ mpc' = "exited"
    /\ UNCHANGED <<env, client, defaultLogger, deferred, execErr>>
    /\ UNCHANGED notMain

\* cmd.Execute returned nil: main returns, its deferred calls run
MainReturn ==
    /\ mpc = "executed" /\ execErr = Nil
    /\ sentryCalls' = IF deferred # <<>> THEN Append(sentryCalls, "Flush") ELSE sentryCalls
    /\ deferred' = <<>>
    /\ exitCode' = 0
    /\ mpc' = "exited"
    /\ UNCHANGED <<env, client, defaultLogger, execErr, sent, stderr>>
    /\ UNCHANGED notMain

NextMain == MainSetup \/ Execute \/ MainFail \/ MainReturn

----------------------------------------------------------------------------
(* Logging: a MultiHandler over a list of handlers, each enabled for some  *)
(* levels and succeeding or failing when it handles a record.              *)

\* a MultiHandler is built over at most MaxHandlers handlers
MaxHandlers == 3

\* slog.LevelDebug, LevelInfo, LevelWarn, LevelError
Levels == {-4, 0, 4, 8}

\* the levels a handler is enabled for: none, errors only, the levels of
\* main's Sentry handler, and every level, as main's terminal handler
LevelSets == {{}, {8}, {0, 4, 8}, Levels}

\* an underlying handler: the levels its Enabled accepts, and whether its
\* Handle returns an error
HandlerKinds == [levels : LevelSets, fails : BOOLEAN]

NoRecord == [Level |-> 0, Message |-> ""]

Records == [Level : Levels, Message : {"fetching action"}]

\* NewMultiHandler(hs...)
NewMultiHandler(hs) ==
    /\ handlers = hs
    /\ record = NoRecord
    /\ lpc = "ready"
    /\ hidx = 0
    /\ received = <<>>
    /\ handleRet = Nil

InitLogging == NewMultiHandler(<<>>)

\* handler.Enabled(ctx, level) of an underlying handler
HandlerEnabled(h, level) == level \in h.levels

\* MultiHandler.Enabled: some underlying handler handles the level
Enabled(level) == \E i \in 1..Len(handlers) : HandlerEnabled(handlers[i], level)

\* h.Handle(ctx, record) is called: the loop starts at the first handler
Handle(rec) ==
    /\ lpc = "ready"
    /\ record' = rec
    /\ hidx' = 1
    /\ lpc' = "handle"
    /\ UNCHANGED <<handlers, received, handleRet>>
    /\ UNCHANGED notLogging

\* a slog.Logger over the MultiHandler logs rec: the record is handed to
\* Handle when Enabled accepts its level, and dropped otherwise
LoggerLog(rec) ==
    /\ lpc = "ready"
    /\ record' = rec
    /\ IF Enabled(rec.Level)
       THEN hidx' = 1 /\ lpc' = "handle"
       ELSE hidx' = 0 /\ lpc' = "dropped"
    /\ UNCHANGED <<handlers, received, handleRet>>
    /\ UNCHANGED notLogging

\* one iteration of Handle's loop, with one slip for the mutants below:
\*   "stop"     the first failure of a handler is returned at once
HandleStepWith(slip) ==
    /\ lpc = "handle" /\ hidx <= Len(handlers)
    /\ LET handler == handlers[hidx] IN
       IF HandlerEnabled(handler, record.Level)
       THEN /\ received' = Append(received, [handler |-> hidx, record |-> record])
            /\ IF handler.fails /\ slip = "stop"
               THEN /\ handleRet' = <<Errorf("write: broken pipe")>>
                    /\ lpc' = "returned"
                    /\ UNCHANGED hidx
               ELSE /\ hidx' = hidx + 1
                    /\ UNCHANGED <<lpc, handleRet>>
       ELSE /\ hidx' = hidx + 1
            /\ UNCHANGED <<received, lpc, handleRet>>
    /\ UNCHANGED <<handlers, record>>
    /\ UNCHANGED notLogging

HandleStep_StopOnError == HandleStepWith("stop")

\* one iteration of Handle's loop: the handler at hidx gets the record when
\* it is enabled for its level; its error, if any, is dropped
HandleStep ==
    /\ lpc = "handle" /\ hidx <= Len(handlers)
    /\ LET handler == handlers[hidx] IN
       IF HandlerEnabled(handler, record.Level)
       THEN received' = Append(received, [handler |-> hidx, record |-> record])
       ELSE UNCHANGED received
    /\ hidx' = hidx + 1
    /\ UNCHANGED <<handlers, record, lpc, handleRet>>
    /\ UNCHANGED notLogging

\* the loop is over: return nil
HandleReturn ==
    /\ lpc = "handle" /\ hidx > Len(handlers)
    /\ handleRet' = Nil
    /\ lpc' = "returned"
    /\ UNCHANGED <<handlers, record, hidx, received>>
    /\ UNCHANGED notLogging

NextLogging ==
    \/ \E rec \in Records : Handle(rec)
    \/ \E rec \in Records : LoggerLog(rec)
    \/ HandleStep
    \/ HandleReturn

----------------------------------------------------------------------------
(* The parser as a state machine: an input is drawn, one entry point is    *)
(* called on it and its return value recorded.                             *)

InitParse ==
    /\ input \in Inputs
    /\ requireVersion = FALSE
    /\ defaultVersion = <<>>
    /\ ppc = "input"
    /\ parsed = [ref |-> Nil, err |-> Nil]
    /\ InitService
    /\ InitConcurrent
    /\ InitMCP
    /\ repository = NoRepository
    /\ InitProcess
    /\ InitLogging

CallParseRef ==
    /\ ppc = "input"
    /\ \E rv \in BOOLEAN, dv \in Defaults :
        /\ requireVersion' = rv
        /\ defaultVersion' = dv
        /\ parsed' = ParseRef(input, rv, dv)
    /\ ppc' = "returned"
    /\ UNCHANGED input
    /\ UNCHANGED notParser

CallParseActionRef ==
    /\ ppc = "input"
    /\ requireVersion' = TRUE
    /\ defaultVersion' = <<>>
    /\ parsed' = ParseActionRef(input)
    /\ ppc' = "returned"
    /\ UNCHANGED input
    /\ UNCHANGED notParser

CallParseRepoRef ==
    /\ ppc = "input"
    /\ requireVersion' = FALSE
    /\ defaultVersion' = Main
    /\ parsed' = ParseRepoRef(input)
    /\ ppc' = "returned"
    /\ UNCHANGED input
    /\ UNCHANGED notParser

NextParse == CallParseRef \/ CallParseActionRef \/ CallParseRepoRef

SpecParse == InitParse /\ [][NextParse]_vars

\* the service specification: the parser variables rest
Init ==
    /\ input = <<>>
    /\ requireVersion = FALSE
    /\ defaultVersion = <<>>
    /\ ppc = "input"
    /\ parsed = [ref |-> Nil, err |-> Nil]
    /\ InitService
    /\ InitConcurrent
    /\ InitMCP
    /\ repository = NoRepository
    /\ InitProcess
    /\ InitLogging

Spec == Init /\ [][Next]_vars

\* the specification of GetReadme against a repository
NextHosted ==
    \/ \E r \in ServiceRefs : GetReadme(r)
    \/ HttpGet
    \/ HttpReturn

InitHosted ==
    /\ input = <<>>
    /\ requireVersion = FALSE
    /\ defaultVersion = <<>>
    /\ ppc = "input"
    /\ parsed = [ref |-> Nil, err |-> Nil]
    /\ InitService
    /\ InitConcurrent
    /\ InitMCP
    /\ repository \in Repositories
    /\ InitProcess
    /\ InitLogging

SpecHosted == InitHosted /\ [][NextHosted]_vars

\* the service under the assumption that every HTTP GET eventually returns:
\* a request that is in flight comes back, and the code between two
\* requests runs on
SpecLive == Init /\ [][Next]_vars /\ WF_vars(HttpGet) /\ WF_vars(HttpReturn)

\* the specification of the process
InitMain ==
    /\ input = <<>>
    /\ requireVersion = FALSE
    /\ defaultVersion = <<>>
    /\ ppc = "input"
    /\ parsed = [ref |-> Nil, err |-> Nil]
    /\ InitService
    /\ InitConcurrent
    /\ InitMCP
    /\ repository = NoRepository
    /\ \E e \in EnvValues : ProcessStart(e)
    /\ InitLogging

SpecMain == InitMain /\ [][NextMain]_vars

\* the specification of the MultiHandler
InitLog ==
    /\ input = <<>>
    /\ requireVersion = FALSE
    /\ defaultVersion = <<>>
    /\ ppc = "input"
    /\ parsed = [ref |-> Nil, err |-> Nil]
    /\ InitService
    /\ InitConcurrent
    /\ InitMCP
    /\ repository = NoRepository
    /\ InitProcess
    /\ \E hs \in SeqsUpTo(HandlerKinds, MaxHandlers) : NewMultiHandler(hs)

SpecLog == InitLog /\ [][NextLogging]_vars

\* the specification of the MCP server
SpecMCP == Init /\ [][NextMCP]_vars

\* the specification of the concurrent callers
SpecConcurrent == Init /\ [][NextConcurrent]_vars

----------------------------------------------------------------------------
(* Vocabulary of the parser properties, stated on the characters of the    *)
(* input and not through the parser's own helpers.                         *)

\* the whitespace the properties speak of: spaces, tabs and newlines
WhiteChars == {" ", "\t", "\n"}

Blank(s) == \A i \in 1..Len(s) : s[i] \in WhiteChars

\* s without its surrounding whitespace: from its first to its last
\* non-white character
Stripped(s) ==
    IF Blank(s) THEN <<>>
    ELSE LET lo == CHOOSE k \in 1..Len(s) :
                       s[k] \notin WhiteChars /\ \A j \in 1..(k - 1) : s[j] \in WhiteChars
             hi == CHOOSE k \in 1..Len(s) :
                       s[k] \notin WhiteChars /\ \A j \in (k + 1)..Len(s) : s[j] \in WhiteChars
         IN SubSeq(s, lo, hi)

\* number of occurrences of the character c in s
Count(s, c) == Cardinality({i \in 1..Len(s) : s[i] = c})

\* position of the first c in s, or Len(s) + 1 when there is none
FirstAt(s, c) ==
    IF \E k \in 1..Len(s) : s[k] = c
    THEN CHOOSE k \in 1..Len(s) : s[k] = c /\ \A j \in 1..(k - 1) : s[j] # c
    ELSE Len(s) + 1

\* the repository path of s: what precedes the first '@', or all of s
RepoPathOf(s) == SubSeq(s, 1, FirstAt(s, "@") - 1)

\* t is owner/repo@version: one '@', one '/' before it, three non-empty parts
WellFormed(t) ==
    LET a == FirstAt(t, "@")
        s == FirstAt(t, "/")
    IN /\ Count(t, "@") = 1
       /\ Count(RepoPathOf(t), "/") = 1
       /\ 1 < s /\ s + 1 < a /\ a < Len(t)

OwnerOf(t) == SubSeq(t, 1, FirstAt(t, "/") - 1)
RepoOf(t) == SubSeq(t, FirstAt(t, "/") + 1, FirstAt(t, "@") - 1)
VersionOf(t) == SubSeq(t, FirstAt(t, "@") + 1, Len(t))

Returned == ppc = "returned"
Failed(r) == r.err # Nil /\ r.ref = Nil
Succeeded(r) == r.err = Nil /\ r.ref # Nil

----------------------------------------------------------------------------
(* Parser properties *)

\* C1: an input that is owner/repo@version once its surrounding whitespace
\* is stripped (one '@', one '/' before it, three non-empty parts) parses, in
\* every mode, to exactly Owner = owner, Repo = repo, Version = version.
C1_WellFormedParses ==
    Returned /\ WellFormed(Stripped(input)) =>
        parsed = RefOk(Ref(OwnerOf(Stripped(input)), RepoOf(Stripped(input)),
                           VersionOf(Stripped(input))))

\* a well-formed reference wrapped in whitespace was parsed as an action reference
C1_Witness ==
    /\ Returned /\ requireVersion
    /\ WellFormed(Stripped(input))
    /\ input # Stripped(input)
    /\ Succeeded(parsed)
    /\ parsed.ref[1].Owner # parsed.ref[1].Repo

\* C2: parsing fails for every input without '@' when the version is
\* required, and for every input with two or more '@' in either mode.
C2_AtCountFails ==
    Returned /\ ((requireVersion /\ Count(input, "@") = 0) \/ Count(input, "@") >= 2)
        => Failed(parsed)

\* owner/repo@v@v, version not required, was rejected
C2_Witness ==
    /\ Returned /\ ~requireVersion
    /\ Count(input, "@") = 2
    /\ Count(RepoPathOf(input), "/") = 1
    /\ OwnerOf(input) # <<>> /\ RepoOf(input) # <<>>
    /\ Len(VersionOf(input)) > 2
    /\ VersionOf(input)[1] # "@"
    /\ input[Len(input)] # "@"
    /\ Failed(parsed)

\* t is owner/repo: no '@', one '/', two non-empty parts
OwnerRepo(t) ==
    /\ Count(t, "@") = 0
    /\ Count(t, "/") = 1
    /\ 1 < FirstAt(t, "/") /\ FirstAt(t, "/") < Len(t)

\* C3 as stated: without a required version, owner/repo parses to the
\* default version whatever default is supplied, and an explicit version is
\* returned as it is.
C3_AnyDefault ==
    Returned /\ ~requireVersion =>
        /\ OwnerRepo(Stripped(input)) =>
               parsed = RefOk(Ref(OwnerOf(Stripped(input)),
                                  RepoOf(Stripped(input)), defaultVersion))
        /\ WellFormed(Stripped(input)) =>
               Succeeded(parsed) /\ parsed.ref[1].Version = VersionOf(Stripped(input))

\* C3 (amended): without a required version and with a non-empty default,
\* owner/repo parses to Version = defaultVersion ("main" for ParseRepoRef);
\* with an empty default it fails; an input that carries @version parses to
\* that version, never to the default.
C3_DefaultVersion ==
    Returned /\ ~requireVersion =>
        /\ OwnerRepo(Stripped(input)) /\ defaultVersion # <<>> =>
               parsed = RefOk(Ref(OwnerOf(Stripped(input)),
                                  RepoOf(Stripped(input)), defaultVersion))
        /\ OwnerRepo(Stripped(input)) /\ defaultVersion = <<>> => Failed(parsed)
        /\ WellFormed(Stripped(input)) =>
               Succeeded(parsed) /\ parsed.ref[1].Version = VersionOf(Stripped(input))
        /\ Count(input, "@") > 0 /\ Succeeded(parsed) =>
               parsed.ref[1].Version = VersionOf(Stripped(input))

\* owner/repo in whitespace went through ParseRepoRef's arguments and got "main"
C3_Witness ==
    /\ Returned /\ ~requireVersion /\ defaultVersion = Main
    /\ OwnerRepo(Stripped(input))
    /\ input # Stripped(input)
    /\ Succeeded(parsed)
    /\ parsed.ref[1].Version = <<"m", "a", "i", "n">>

\* C4: an input whose repository path (what precedes the '@', or the whole
\* trimmed input) is not exactly two '/'-separated segments fails in every
\* mode, with or without a version.
C4_SegmentCountFails ==
    Returned /\ Count(RepoPathOf(Stripped(input)), "/") # 1 => Failed(parsed)

\* owner/group/repo@version was rejected although a version is not required
C4_Witness ==
    /\ Returned /\ ~requireVersion /\ defaultVersion = Main
    /\ input = <<"a", "/", "b", "c", "/", "a", "@", "v">>
    /\ Failed(parsed)

\* C5: an input that is empty or all spaces, tabs and newlines fails in
\* every mode; the default version is never applied to it.
C5_BlankFails ==
    Returned /\ Blank(input) => Failed(parsed)

\* tab, newline and space together, version optional with default "main"
C5_Witness ==
    /\ Returned /\ ~requireVersion /\ defaultVersion = Main
    /\ Blank(input) /\ Len(input) >= 3
    /\ \E i, j \in 1..Len(input) : input[i] = "\t" /\ input[j] = "\n"
    /\ Failed(parsed)

\* C6: whitespace around an input never changes the outcome: the padded
\* input returns the same Ref, or fails exactly when the input fails.
C6_PaddingIrrelevant ==
    Returned =>
        \A p \in Pads, s \in Pads :
            LET padded == ParseRef(p \o input \o s, requireVersion, defaultVersion)
            IN /\ padded.ref = parsed.ref
               /\ (padded.err = Nil) <=> (parsed.err = Nil)

\* a reference that parses, itself already wrapped in whitespace
C6_Witness ==
    /\ Returned /\ Succeeded(parsed)
    /\ Len(input) > 0 /\ input[1] = "\t" /\ input[Len(input)] = " "
    /\ ParseRef(<<"\n", " ">> \o input \o <<"\t">>, requireVersion, defaultVersion) = parsed

\* C7: a Ref returned without error has Owner, Repo and Version all
\* non-empty, for every input, mode and default (the empty default included).
C7_NoPartialRef ==
    Returned /\ parsed.err = Nil =>
        /\ parsed.ref # Nil
        /\ parsed.ref[1].Owner # <<>>
        /\ parsed.ref[1].Repo # <<>>
        /\ parsed.ref[1].Version # <<>>

\* a Ref was returned under an empty default version
C7_Witness ==
    /\ Returned /\ ~requireVersion /\ defaultVersion = <<>>
    /\ parsed.err = Nil
    /\ parsed.ref[1].Version # <<>>

\* the message ends in a quotation of the text x
Quotes(msg, x) ==
    \E lead \in {"invalid reference format: expected 'owner/repo@version' or 'owner/repo', got '",
                  "invalid reference format: expected 'owner/repo@version', got '",
                  "invalid repository path: expected 'owner/repo', got '",
                  "reference cannot be empty, got '",
                  "owner, repo, and version must all be non-empty, got '"} :
        msg = lead \o Str(x) \o "'"

\* C15 as stated: every failure of the parser carries the offending input in
\* its error: the reference with or without its surrounding whitespace, or
\* its repository path (an empty reference has nothing to carry).
C15_EveryFailureEchoes ==
    Returned /\ Failed(parsed) /\ ~Blank(input) =>
        LET msg == parsed.err[1].msg IN
        \/ Quotes(msg, input)
        \/ Quotes(msg, Stripped(input))
        \/ Quotes(msg, RepoPathOf(Stripped(input)))

\* C15 (amended): a failure of the parser is returned with one of five
\* messages.  The two format failures quote the trimmed reference and the
\* repository path failure quotes the repository path; the failure on an
\* empty reference and the failure on an empty owner, repo or version carry a
\* fixed message that does not show the input.
C15_FormatFailuresEcho ==
    Returned /\ Failed(parsed) =>
        LET msg == parsed.err[1].msg
            t == Stripped(input)
            path == RepoPathOf(t)
        IN IF t = <<>>
           THEN msg = "reference cannot be empty"
           ELSE IF Count(t, "@") >= 2
           THEN msg = "invalid reference format: expected 'owner/repo@version' or 'owner/repo', got '"
                          \o Str(t) \o "'"
           ELSE IF Count(t, "@") = 0 /\ requireVersion
           THEN msg = "invalid reference format: expected 'owner/repo@version', got '"
                          \o Str(t) \o "'"
           ELSE IF Count(path, "/") # 1
           THEN msg = "invalid repository path: expected 'owner/repo', got '"
                          \o Str(path) \o "'"
           ELSE msg = "owner, repo, and version must all be non-empty"

\* ParseActionRef(" a/b") fails and quotes a/b, without the leading blank
C15_Witness ==
    /\ Returned /\ Failed(parsed) /\ requireVersion
    /\ input = <<" ", "a", "/", "b">>
    /\ parsed.err[1].msg = "invalid reference format: expected 'owner/repo@version', got 'a/b'"

\* the kind of the failure r, told by its message; x is the reference
\* without its surrounding whitespace
ErrorKind(r, x) ==
    LET msg == r.err[1].msg IN
    IF msg = "reference cannot be empty" THEN "EmptyReference"
    ELSE IF msg = "invalid reference format: expected 'owner/repo@version' or 'owner/repo', got '"
                      \o Str(x) \o "'"
    THEN "MalformedReference"
    ELSE IF msg = "invalid reference format: expected 'owner/repo@version', got '"
                      \o Str(x) \o "'"
    THEN "MissingVersion"
    ELSE IF msg = "invalid repository path: expected 'owner/repo', got '"
                      \o Str(RepoPathOf(x)) \o "'"
    THEN "MalformedRepoPath"
    ELSE IF msg = "owner, repo, and version must all be non-empty" THEN "IncompleteReference"
    ELSE "other"

\* the first check the reference x fails, the checks taken in the order
\* empty input, '@' count and missing version, segment count of the
\* repository path, empty field; "none" when it passes them all
FirstFailingCheck(x, reqVersion, defVersion) ==
    LET path == RepoPathOf(x)
        slash == FirstAt(path, "/")
        version == IF Count(x, "@") = 0 THEN defVersion
                   ELSE SubSeq(x, FirstAt(x, "@") + 1, Len(x))
    IN IF x = <<>> THEN "EmptyReference"
       ELSE IF Count(x, "@") >= 2 THEN "MalformedReference"
       ELSE IF Count(x, "@") = 0 /\ reqVersion THEN "MissingVersion"
       ELSE IF Count(path, "/") # 1 THEN "MalformedRepoPath"
       ELSE IF slash = 1 \/ slash = Len(path) \/ version = <<>> THEN "IncompleteReference"
       ELSE "none"

\* C25: the parser fails with the kind of the first check the input fails
\* in the order empty input, '@' count / missing version, segment count of
\* the repository path, empty field, and succeeds when the input passes them
\* all; so three segments without '@' under a required version are a
\* MissingVersion, three segments with two '@' a MalformedReference, owner@v
\* and @v a MalformedRepoPath, and owner/@v and /repo@v an IncompleteReference.
C25_FirstFailingCheckDecides ==
    Returned =>
        LET x == Stripped(input)
            first == FirstFailingCheck(x, requireVersion, defaultVersion)
        IN /\ Succeeded(parsed) <=> first = "none"
           /\ Failed(parsed) <=> first # "none"
           /\ Failed(parsed) => ErrorKind(parsed, x) = first
           /\ Failed(parsed) /\ Count(x, "@") = 0 /\ Count(x, "/") = 2 /\ requireVersion
                  => ErrorKind(parsed, x) = "MissingVersion"
           /\ Failed(parsed) /\ Count(x, "@") = 2 /\ Count(RepoPathOf(x), "/") = 2
                  => ErrorKind(parsed, x) = "MalformedReference"
           /\ x \in {<<"a", "@", "v">>, <<"@", "v">>}
                  => Failed(parsed) /\ ErrorKind(parsed, x) = "MalformedRepoPath"
           /\ x \in {<<"a", "/", "@", "v">>, <<"/", "a", "@", "v">>}
                  => Failed(parsed) /\ ErrorKind(parsed, x) = "IncompleteReference"

\* a/bc/a as an action reference: the missing version is reported, not the
\* three segments
C25_Witness ==
    /\ Returned /\ requireVersion
    /\ input = <<"a", "/", "b", "c", "/", "a">>
    /\ Failed(parsed)
    /\ parsed.err[1].msg = "invalid reference format: expected 'owner/repo@version', got 'a/bc/a'"

\* C26: the default version is returned only for an input without '@': an
\* input with '@' that parses has the text after its '@' as Version, and an
\* input that ends, once its surrounding whitespace is stripped, in an '@'
\* with nothing after it fails, whether the version is required or not and
\* whatever the default ("main" included).
C26_DefaultOnlyWithoutAt ==
    Returned =>
        LET x == Stripped(input) IN
        /\ Count(input, "@") > 0 /\ Succeeded(parsed) =>
               /\ parsed.ref[1].Version = SubSeq(x, FirstAt(x, "@") + 1, Len(x))
               /\ Len(parsed.ref[1].Version) > 0
        /\ x # <<>> /\ x[Len(x)] = "@" => Failed(parsed)
        /\ Succeeded(parsed) /\ parsed.ref[1].Version = defaultVersion =>
               \/ Count(input, "@") = 0
               \/ SubSeq(x, FirstAt(x, "@") + 1, Len(x)) = defaultVersion

\* ParseRepoRef's arguments on a/b@ followed by a newline and a blank: the
\* reference is refused, "main" is not filled in
C26_Witness ==
    /\ Returned /\ ~requireVersion /\ defaultVersion = Main
    /\ input = <<"a", "/", "b", "@", "\n", " ">>
    /\ Failed(parsed)
    /\ parsed.err[1].msg = "owner, repo, and version must all be non-empty"

\* C28: a Ref returned for an input with '@' spells, as
\* Owner/Repo@Version, the input without its surrounding whitespace,
\* character for character; a Ref returned for an input without '@' spells
\* it as Owner/Repo and has the default version.
C28_RoundTrip ==
    Returned /\ Succeeded(parsed) =>
        LET r == parsed.ref[1] IN
        IF Count(input, "@") > 0
        THEN r.Owner \o <<"/">> \o r.Repo \o <<"@">> \o r.Version = Stripped(input)
        ELSE /\ r.Owner \o <<"/">> \o r.Repo = Stripped(input)
             /\ r.Version = defaultVersion

\* "a /b" in whitespace, parsed with the default "main": the blank before
\* the '/' stays in Owner
C28_Witness ==
    /\ Returned /\ Succeeded(parsed)
    /\ Stripped(input) = <<"a", " ", "/", "b">>
    /\ input # Stripped(input)
    /\ parsed.ref[1] = Ref(<<"a", " ">>, <<"b">>, Main)

\* what the two entry points return on the input of the state: the one that
\* was called as the state records it, the other as it would return
AsActionRef == IF requireVersion /\ defaultVersion = <<>> THEN parsed ELSE ParseActionRef(input)

AsRepoRef == IF ~requireVersion /\ defaultVersion = Main THEN parsed ELSE ParseRepoRef(input)

\* C29: on an input with at least one '@', ParseActionRef and ParseRepoRef
\* return the same Ref or both fail; on an input without '@', ParseActionRef
\* fails, and ParseRepoRef succeeds exactly when the input without its
\* surrounding whitespace is two non-empty segments around one '/'.
C29_ModesDifferWithoutAt ==
    Returned =>
        IF Count(input, "@") > 0
        THEN /\ AsActionRef.ref = AsRepoRef.ref
             /\ Failed(AsActionRef) <=> Failed(AsRepoRef)
             /\ Succeeded(AsActionRef) \/ Failed(AsActionRef)
        ELSE /\ Failed(AsActionRef)
             /\ Succeeded(AsRepoRef) <=> OwnerRepo(Stripped(input))
             /\ Succeeded(AsRepoRef) \/ Failed(AsRepoRef)

\* a/b in whitespace went through ParseActionRef and failed, where
\* ParseRepoRef returns a/b@main
C29_Witness ==
    /\ Returned /\ requireVersion /\ defaultVersion = <<>>
    /\ Stripped(input) = <<"a", "/", "b">> /\ input # Stripped(input)
    /\ Failed(parsed)
    /\ ParseRepoRef(input) = RefOk(Ref(<<"a">>, <<"b">>, Main))

----------------------------------------------------------------------------
(* Vocabulary of the fetch properties *)

\* the fallback fetch of the call has returned
Fetched == spc = "done" /\ remote # <<>>

\* candidate i answers 404
NotFound(i) == remote[i].err = Nil /\ remote[i].status = 404

\* candidate i answers 200
Returns200(i) == remote[i].err = Nil /\ remote[i].status = 200

\* the fetch of candidate i succeeds: it answers 200 and its body is read
FetchSucceeds(i) == Returns200(i) /\ remote[i].readErr = Nil

\* the earliest candidate of I
Earliest(I) == CHOOSE i \in I : \A j \in I : i <= j

\* the fallback fetch returned exactly the body of candidate i
ReturnedBodyOf(i) == fetched.err = Nil /\ fetched.val = <<remote[i].body>>

\* the URL of candidate i of the call
CandidateURL(i) ==
    "https://raw.githubusercontent.com/" \o Str(cref.Owner) \o "/" \o Str(cref.Repo)
        \o (IF call.op \in {"GetActionParameters", "FetchActionYAML"}
            THEN "/refs/tags/" ELSE "/refs/heads/")
        \o Str(cref.Version) \o "/"
        \o (IF call.op \in {"GetActionParameters", "FetchActionYAML"}
            THEN <<"action.yml", "action.yaml">>
            ELSE <<"README.md", "readme.md", "Readme.md", "README", "readme">>)[i]

----------------------------------------------------------------------------
(* Fetch properties *)

\* C8 as stated: when the first candidate answers 404 and a later
\* candidate answers 200, the fetch succeeds with a later 200 candidate's body.
C8_Later200Returned ==
    Fetched /\ NotFound(1) /\ (\E j \in 2..Len(remote) : Returns200(j)) =>
        \E j \in 2..Len(remote) : Returns200(j) /\ ReturnedBodyOf(j)

\* C8 (amended): when the first candidate answers 404 and a later candidate
\* answers 200 with a body that is read without error, the fetch succeeds and
\* returns the body of the earliest such candidate.
C8_FallbackReturnsLater ==
    Fetched /\ NotFound(1) /\ (\E j \in 2..Len(remote) : FetchSucceeds(j)) =>
        ReturnedBodyOf(Earliest({j \in 2..Len(remote) : FetchSucceeds(j)}))

\* FetchActionYAML: action.yml is 404, action.yaml is 200 and was returned
C8_Witness ==
    /\ Fetched /\ call.op = "FetchActionYAML"
    /\ NotFound(1) /\ FetchSucceeds(2)
    /\ requests = <<"https://raw.githubusercontent.com/a/b/refs/tags/v/action.yml",
                    "https://raw.githubusercontent.com/a/b/refs/tags/v/action.yaml">>
    /\ fetched = [val |-> <<"name: B">>, err |-> Nil]

\* C9: when every candidate fails, the fetch returns an error that wraps the
\* failure of the last candidate, not an earlier one, and whose message names
\* owner/repo@version.
C9_AggregateWrapsLast ==
    Fetched /\ (\A i \in 1..Len(remote) : ~FetchSucceeds(i)) =>
        LET n == Len(remote)
            lastFailure ==
                FetchRawFile(cref.Owner, cref.Repo, UrlPath(call.op, cref.Version),
                             Candidates(call.op)[n], remote[n]).err
        IN /\ fetched.err # Nil
           /\ fetched.err[1].wrapped = lastFailure
           /\ \E intro \in {"action.yml or action.yaml not found for ",
                            "README not found in repository "} :
                  fetched.err[1].msg =
                      intro \o Str(cref.Owner) \o "/" \o Str(cref.Repo) \o "@"
                            \o Str(cref.Version) \o ": " \o lastFailure[1].msg

\* FetchReadme: README.md is 404, the last candidate is refused by the network
C9_Witness ==
    /\ Fetched /\ call.op = "FetchReadme"
    /\ NotFound(1) /\ remote[5] = TransportFailure
    /\ Len(requests) = 5
    /\ fetched.val = <<"">>
    /\ fetched.err[1].msg =
           "README not found in repository a/b@v: failed to fetch readme: dial tcp: connection refused"

\* C10: the fetch returns the body of the earliest candidate whose fetch
\* succeeds, and never requests a candidate after that one; the requests are
\* the candidates' URLs in list order.
C10_FirstSuccessWins ==
    /\ \A k \in 1..Len(requests) : requests[k] = CandidateURL(k)
    /\ remote # <<>> /\ (\E i \in 1..Len(remote) : FetchSucceeds(i)) =>
           LET e == Earliest({i \in 1..Len(remote) : FetchSucceeds(i)})
           IN /\ Len(requests) <= e
              /\ spc = "done" => Len(requests) = e /\ ReturnedBodyOf(e)

\* action.yml and action.yaml both exist: action.yml was returned, action.yaml
\* was not requested
C10_Witness ==
    /\ Fetched /\ call.op = "GetActionParameters"
    /\ remote = <<Ok200("name: A"), Ok200("name: B")>>
    /\ requests = <<"https://raw.githubusercontent.com/a/b/refs/tags/v/action.yml">>
    /\ fetched = [val |-> <<"name: A">>, err |-> Nil]

\* the candidates of the call whose fetch succeeds
Succeeding == {i \in 1..Len(remote) : FetchSucceeds(i)}

\* the candidate the loop stops at: the earliest that succeeds, else the last
StopsAt == IF Succeeding = {} THEN Len(remote) ELSE Earliest(Succeeding)

\* the zero value the fallback fetch returns with an error
ZeroFetched == IF call.op \in {"GetActionParameters", "FetchActionYAML"} THEN <<>> ELSE <<"">>

\* C11: a candidate that fails, whatever the failure (404, another status, a
\* transport failure, an unreadable body), makes the fetch request the next
\* candidate, once each and in order, up to the earliest candidate that
\* succeeds; whether the fetch succeeds and what it returns is determined by
\* which candidates succeed alone.
C11_FailuresAlike ==
    remote # <<>> =>
        /\ Len(requests) <= StopsAt
        /\ \A k \in 1..Len(requests) : requests[k] = CandidateURL(k)
        /\ spc = "done" =>
               /\ Len(requests) = StopsAt
               /\ (fetched.err = Nil) = (Succeeding # {})
               /\ fetched.val = IF Succeeding # {} THEN <<remote[StopsAt].body>>
                                ELSE ZeroFetched

\* GetReadme: the network refuses README.md, readme.md answers 500, the body
\* of Readme.md cannot be read, README is there and is returned
C11_Witness ==
    /\ Fetched /\ call.op = "GetReadme"
    /\ remote[1] = TransportFailure /\ remote[2] = Status(500)
    /\ remote[3] = ReadFailure("# A") /\ remote[4] = Ok200("# B")
    /\ Len(requests) = 4
    /\ result = [val |-> <<"# B">>, err |-> Nil]

\* the candidate whose answer FetchRawFile last turned into its return value
LastAnswered == IF spc = "wait" THEN Len(requests) - 1 ELSE Len(requests)

\* the filename of candidate i of the call
CandidateName(i) ==
    (IF call.op \in {"GetActionParameters", "FetchActionYAML"}
     THEN <<"action.yml", "action.yaml">>
     ELSE <<"README.md", "readme.md", "Readme.md", "README", "readme">>)[i]

\* C12: FetchRawFile returns a body only from a response with status 200,
\* and then that response's body; on 404 it returns no data and an error
\* giving the filename and the URL; on every other status but 200 no data
\* and an error giving the status code and the URL; on a transport failure
\* no data and an error that wraps the transport's error.
C12_FetchRawFileByStatus ==
    LastAnswered >= 1 =>
        LET resp == remote[LastAnswered]
            name == CandidateName(LastAnswered)
            url == CandidateURL(LastAnswered)
        IN /\ rawRet.val # Nil =>
                 resp.err = Nil /\ resp.status = 200 /\ rawRet.val = <<resp.body>>
           /\ resp.err = Nil /\ resp.status = 404 =>
                 /\ rawRet.val = Nil
                 /\ rawRet.err[1].msg = name \o " not found at " \o url \o " (status: 404)"
           /\ resp.err = Nil /\ resp.status \notin {200, 404} =>
                 /\ rawRet.val = Nil
                 /\ rawRet.err[1].msg =
                        "failed to fetch " \o name \o " from " \o url \o " (status: "
                            \o ToString(resp.status) \o ")"
           /\ resp.err # Nil =>
                 /\ rawRet.val = Nil
                 /\ rawRet.err # Nil
                 /\ rawRet.err[1].wrapped = resp.err

\* FetchActionYAML: action.yml answered 204 No Content, which FetchRawFile
\* reported as an unexpected status
C12_Witness ==
    /\ call.op = "FetchActionYAML" /\ spc = "get" /\ LastAnswered = 1
    /\ remote[1] = Status(204)
    /\ rawRet.val = Nil
    /\ rawRet.err[1].msg =
           "failed to fetch action.yml from https://raw.githubusercontent.com/a/b/refs/tags/v/action.yml (status: 204)"

----------------------------------------------------------------------------
(* Properties of the operations built on the fetch *)

\* C13: when GetActionParameters fetches action.yml with status 200 and the
\* body does not decode, it returns no parameters and the decoding error, and
\* action.yaml is never requested, whatever action.yaml holds.
C13_DecodeFailureTerminal ==
    /\ call.op = "GetActionParameters" /\ remote # <<>>
    /\ FetchSucceeds(1) /\ remote[1].body = "name: [bad"
    => /\ Len(requests) <= 1
       /\ spc = "done" =>
              /\ requests = <<CandidateURL(1)>>
              /\ result.val = Nil
              /\ result.err # Nil
              /\ result.err[1].msg =
                     "failed to parse YAML: yaml: did not find expected ',' or ']'"

\* action.yml is malformed, action.yaml would have decoded
C13_Witness ==
    /\ call.op = "GetActionParameters" /\ spc = "done"
    /\ remote = <<Ok200("name: [bad"), Ok200("name: B")>>
    /\ requests = <<"https://raw.githubusercontent.com/a/b/refs/tags/v/action.yml">>
    /\ result.val = Nil /\ result.err # Nil

\* the URLs of a descriptor retrieval and of a documentation retrieval
DescriptorURLs(owner, repo, version) ==
    LET base == "https://raw.githubusercontent.com/" \o Str(owner) \o "/" \o Str(repo)
                    \o "/refs/tags/" \o Str(version) \o "/"
    IN <<base \o "action.yml", base \o "action.yaml">>

DocumentationURLs(owner, repo, version) ==
    LET base == "https://raw.githubusercontent.com/" \o Str(owner) \o "/" \o Str(repo)
                    \o "/refs/heads/" \o Str(version) \o "/"
    IN <<base \o "README.md", base \o "readme.md", base \o "Readme.md",
         base \o "README", base \o "readme">>

IsPrefix(s, t) == Len(s) <= Len(t) /\ \A k \in 1..Len(s) : s[k] = t[k]

\* C14: the URLs one retrieval requests are a prefix of its candidate URLs in
\* order (tag-style action.yml, action.yaml for a descriptor; branch-style
\* README.md, readme.md, Readme.md, README, readme for documentation), a
\* non-empty one once the retrieval has returned; no URL is requested twice,
\* and nothing is requested outside a retrieval.
C14_RequestedURLs ==
    /\ call.op \in {"GetActionParameters", "FetchActionYAML"} =>
           IsPrefix(requests, DescriptorURLs(cref.Owner, cref.Repo, cref.Version))
    /\ call.op \in {"GetReadme", "FetchReadme"} =>
           IsPrefix(requests, DocumentationURLs(cref.Owner, cref.Repo, cref.Version))
    /\ call.op = "" \/ remote = <<>> => requests = <<>>
    /\ Fetched => requests # <<>>
    /\ \A j, k \in 1..Len(requests) : j # k => requests[j] # requests[k]

\* GetReadme("b/a@main") requested the first three documentation URLs, in order
C14_Witness ==
    /\ Fetched
    /\ call = [op |-> "GetReadme", ref |-> <<"b", "/", "a", "@", "m", "a", "i", "n">>]
    /\ requests = <<"https://raw.githubusercontent.com/b/a/refs/heads/main/README.md",
                    "https://raw.githubusercontent.com/b/a/refs/heads/main/readme.md",
                    "https://raw.githubusercontent.com/b/a/refs/heads/main/Readme.md">>

\* r is a result and no error, or one error and the zero value
ResultXorError(r, zero) ==
    \/ r.err = Nil /\ r.val # zero
    \/ r.err # Nil /\ Len(r.err) = 1 /\ r.val = zero

\* the zero value of what the operation of the call returns
ZeroResult == IF call.op \in {"GetReadme", "FetchReadme"} THEN <<"">> ELSE <<>>

\* C16: whatever ParseRef, FetchRawFile, FetchActionYAML, FetchReadme,
\* GetActionParameters and GetReadme return is either a result without an
\* error or one error with the zero value: never both, never neither.
C16_ResultXorError ==
    /\ Returned => (parsed.ref # Nil /\ parsed.err = Nil) \/ Failed(parsed)
    /\ LastAnswered >= 1 => ResultXorError(rawRet, <<>>)
    /\ Fetched => ResultXorError(fetched, ZeroFetched)
    /\ spc = "done" => ResultXorError(result, ZeroResult)

\* candidate i answers 200 with a body whose reading fails
ReadFails(i) == remote[i].err = Nil /\ remote[i].status = 200 /\ remote[i].readErr # Nil

\* the error FetchRawFile makes of a failed read of the file name
ReadError(name, readErr) ==
    [msg |-> "failed to read " \o name \o " response: " \o readErr[1].msg,
     wrapped |-> readErr]

\* C30: when reading the body of a 200 response fails, FetchRawFile returns
\* no bytes and an error that wraps the read error; the fallback fetch then
\* requests the next candidate, as after any other failure, and when the
\* candidate was the last one returns the aggregate error that wraps that
\* read failure.
C30_ReadFailureIsFailure ==
    /\ LastAnswered >= 1 /\ ReadFails(LastAnswered) =>
           /\ rawRet.val = Nil
           /\ rawRet.err = <<ReadError(CandidateName(LastAnswered),
                                       remote[LastAnswered].readErr)>>
    /\ \A i \in 1..Len(remote) :
           ReadFails(i) /\ (\A j \in 1..i : ~FetchSucceeds(j)) =>
               /\ i < Len(remote) /\ LastAnswered = i =>
                      /\ spc # "done" /\ idx = i + 1
                      /\ lastErr = <<ReadError(CandidateName(i), remote[i].readErr)>>
               /\ i < Len(remote) /\ spc = "done" => Len(requests) > i
               /\ i = Len(remote) /\ spc = "done" =>
                      /\ Len(requests) = i
                      /\ fetched.val = ZeroFetched
                      /\ fetched.err # Nil
                      /\ fetched.err[1].wrapped =
                             <<ReadError(CandidateName(i), remote[i].readErr)>>

\* FetchActionYAML: action.yml is 404 and the body of action.yaml cannot be
\* read: the aggregate error wraps the read failure
C30_Witness ==
    /\ call.op = "FetchActionYAML" /\ spc = "done"
    /\ remote = <<Status(404), ReadFailure("name: A")>>
    /\ Len(requests) = 2
    /\ fetched.val = Nil
    /\ fetched.err[1].msg =
           "action.yml or action.yaml not found for a/b@v: failed to read action.yaml response: unexpected EOF"

----------------------------------------------------------------------------
(* Termination *)

\* the most requests one call of the operation op may issue
MostRequests(op) ==
    IF op \in {"GetActionParameters", "FetchActionYAML"} THEN 2
    ELSE IF op \in {"GetReadme", "FetchReadme"} THEN 5
    ELSE 0

\* C27: when every HTTP GET eventually returns, every call of
\* FetchActionYAML, FetchReadme, GetActionParameters and GetReadme eventually
\* returns; a call never issues more than 2 requests for a descriptor nor
\* more than 5 for documentation, and never requests a URL twice.
C27_CallsReturn ==
    /\ [](Len(requests) <= MostRequests(call.op))
    /\ [](\A j, k \in 1..Len(requests) : j # k => requests[j] # requests[k])
    /\ (call.op \in {"FetchActionYAML", "FetchReadme", "GetActionParameters", "GetReadme"})
           ~> (spc = "done")

\* FetchReadme returned after all five candidates had failed
C27_Witness ==
    /\ call.op = "FetchReadme" /\ spc = "done"
    /\ Len(requests) = 5
    /\ \A i \in 1..5 : ~FetchSucceeds(i)
    /\ fetched.err # Nil

----------------------------------------------------------------------------
(* Concurrency *)

\* what the operation op returns on the reference ref when it runs alone and
\* the CDN answers its candidates with rem: the rejection of the reference,
\* or what the operation makes of the earliest candidate that is fetched, or
\* of the failure of the last candidate
Alone(op, ref, rem) ==
    LET parse == IF op = "GetActionParameters" THEN ParseActionRef(ref)
                 ELSE ParseRepoRef(ref)
    IN IF parse.err # Nil
       THEN IF op = "GetActionParameters"
            THEN [val |-> Nil,
                  err |-> <<ErrorfW("invalid action reference: ", parse.err[1])>>]
            ELSE StringErr(ErrorfW("invalid repository reference: ", parse.err[1]))
       ELSE LET r == parse.ref[1]
                out == [i \in 1..Len(rem) |->
                           FetchRawFile(r.Owner, r.Repo, UrlPath(op, r.Version),
                                        Candidates(op)[i], rem[i])]
                ok == {i \in 1..Len(rem) : out[i].err = Nil}
            IN AfterFetch(op, IF ok = {}
                              THEN FetchedErr(op, r, out[Len(rem)].err)
                              ELSE FetchedOk(op, out[Earliest(ok)].val[1]))

\* the call of the sequential service returns what Alone says
AloneIsSequential ==
    spc = "done" /\ call.op \in {"GetActionParameters", "GetReadme"} =>
        result = Alone(call.op, call.ref, remote)

\* C17: under every interleaving of the callers' steps, the service is left
\* as it was constructed and each caller's call returns what the same call
\* returns when it runs alone against the same answers.
C17_CallersIndependent ==
    /\ service = NewActionsService
    /\ \A p \in Callers :
           thr[p].spc = "done" =>
               thr[p].result = Alone(thr[p].op, thr[p].ref, thr[p].remote)

\* caller 1 has returned the failure of all five README candidates while
\* caller 2, whose action.yml was refused by the network, waits for action.yaml
C17_Witness ==
    /\ thr[1].op = "GetReadme" /\ thr[1].spc = "done"
    /\ Len(thr[1].requests) = 5
    /\ thr[1].result.err # Nil
    /\ thr[1].result.err[1].msg =
           "README not found in repository a/b@main: failed to fetch readme from https://raw.githubusercontent.com/a/b/refs/heads/main/readme (status: 500)"
    /\ thr[2].op = "GetActionParameters" /\ thr[2].spc = "wait"
    /\ Len(thr[2].requests) = 2
    /\ thr[2].lastErr # Nil /\ thr[2].lastErr[1].wrapped = TransportFailure.err

----------------------------------------------------------------------------
(* Properties of the MCP server *)

\* C18: once the server has registered its tools, get_action_parameters
\* with the argument actionRef and get_readme with the argument repoRef are
\* both among them.
C18_BothToolsRegistered ==
    tpc # "new" =>
        /\ \E t \in tools : t.Name = "get_action_parameters" /\ t.argument = "actionRef"
        /\ \E t \in tools : t.Name = "get_readme" /\ t.argument = "repoRef"

\* C20: the wrapped handler is invoked once, with the request and the
\* arguments the wrapper was called with, and the wrapper returns the result,
\* the data and the error the handler returned, whether the error is nil or
\* not.
C20_WrapperTransparent ==
    /\ Len(invoked) <= 1
    /\ tpc \in {"new", "serving", "wrapper"} => invoked = <<>>
    /\ tpc \in {"handler", "handled", "returned"} =>
           invoked = <<[req |-> tcall.req, args |-> tcall.args]>>
    /\ tpc = "returned" =>
           /\ tret.result = hret.result
           /\ tret.data = hret.data
           /\ tret.err = hret.err

\* the wrapped get_action_parameters handler found action.yml and the
\* wrapper returned its text, its structured data and no error
C20_Witness ==
    /\ tpc = "returned" /\ tcall.tool = "get_action_parameters"
    /\ tcall.args.ActionRef = <<"a", "/", "b", "@", "v">>
    /\ Len(invoked) = 1
    /\ tret.err = Nil
    /\ tret.data = << <<[yaml |-> "name: A"]>> >>
    /\ tret.result[1].Content[1].Text =
           "Action: a/b@v\n\nName: A\n\nFull action.yml structure returned in structured data."

\* C21: a traced tool call whose handler returned an error ends with the
\* span status internal_error, mcp.tool.result.is_error = true and that error
\* captured once; one whose handler returned no error ends with the span
\* status ok, mcp.tool.result.is_error = false and nothing captured; nothing
\* is captured and no status is set before the handler has returned.
C21_SpanOutcome ==
    /\ tpc # "returned" => captured = <<>> /\ span.Status = "" /\ ~span.finished
    /\ tpc = "returned" =>
           /\ span.finished
           /\ IF hret.err # Nil
              THEN /\ span.Status = "internal_error"
                   /\ span.Data["mcp.tool.result.is_error"] = TRUE
                   /\ captured = <<hret.err[1]>>
              ELSE /\ span.Status = "ok"
                   /\ span.Data["mcp.tool.result.is_error"] = FALSE
                   /\ captured = <<>>

\* a handler returned a result together with an error: the span is an
\* internal_error span and the error was captured
C21_Witness ==
    /\ tpc = "returned" /\ tcall.handler = "mockHandler"
    /\ hret.result # Nil /\ hret.err # Nil
    /\ span.Status = "internal_error"
    /\ span.Data["mcp.tool.result.is_error"] = TRUE
    /\ captured = <<Errorf("wrong name argument")>>

\* the tool call in progress is a call of get_action_parameters
ActionParametersCall == tcall.handler = "handleGetActionParameters"

\* the handler of the tool call has returned
Handled == tpc \in {"handled", "returned"}

\* C23: an HTTP request is issued only within a get_action_parameters call
\* whose actionRef is not empty and is owner/repo@version once its
\* surrounding whitespace is stripped; an empty actionRef is refused by the
\* handler, which does not call the service; every other actionRef that is
\* not of that form (a blank one included) reaches the service and comes
\* back as an error with no request issued.
C23_RequestAfterValidation ==
    /\ requests # <<>> =>
           /\ ActionParametersCall
           /\ tcall.args.ActionRef # <<>>
           /\ WellFormed(Stripped(tcall.args.ActionRef))
    /\ ActionParametersCall /\ tcall.args.ActionRef = <<>> =>
           /\ call = NoCall /\ spc = "idle" /\ requests = <<>>
           /\ Handled => hret = Triple(Nil, Nil, <<Errorf("actionRef is required")>>)
    /\ /\ ActionParametersCall /\ Handled
       /\ tcall.args.ActionRef # <<>>
       /\ ~WellFormed(Stripped(tcall.args.ActionRef))
       => /\ call = [op |-> "GetActionParameters", ref |-> tcall.args.ActionRef]
          /\ hret.result = Nil /\ hret.data = Nil /\ hret.err # Nil
          /\ hret.err[1].wrapped = result.err
          /\ requests = <<>>

\* a blank actionRef passed the handler's check, was refused by the parser
\* inside the service, and no request was issued
C23_Witness ==
    /\ tpc = "returned" /\ tcall.tool = "get_action_parameters"
    /\ tcall.args.ActionRef = <<" ", "\n">>
    /\ call.op = "GetActionParameters" /\ spc = "done"
    /\ requests = <<>>
    /\ tret.err # Nil
    /\ tret.err[1].msg =
           "failed to get action parameters: invalid action reference: reference cannot be empty"

----------------------------------------------------------------------------
(* Logging properties *)

\* the handlers of the list that are enabled for the level of the record
EnabledFor == {i \in 1..Len(handlers) : record.Level \in handlers[i].levels}

\* C24: Handle delivers the record, in list order and once each, to the
\* handlers enabled for its level and to no other: while it runs, to those
\* before the handler it is at; once it has returned, to all of them, the
\* ones after a failing handler included, and what it returns is nil.
C24_HandleForwardsToAll ==
    /\ \A k \in 1..Len(received) :
           /\ received[k].handler \in EnabledFor
           /\ received[k].record = record
           /\ \A j \in 1..(k - 1) : received[j].handler < received[k].handler
    /\ lpc = "handle" =>
           \A i \in EnabledFor :
               i < hidx <=> \E k \in 1..Len(received) : received[k].handler = i
    /\ lpc = "returned" =>
           /\ \A i \in EnabledFor : \E k \in 1..Len(received) : received[k].handler = i
           /\ handleRet = Nil
    /\ lpc \in {"ready", "dropped"} => received = <<>>

\* a warning went to a failing first handler and to the third handler, and
\* not to the second, which takes errors only; Handle returned nil
C24_Witness ==
    /\ lpc = "returned" /\ Len(handlers) = 3
    /\ record.Level = 4
    /\ handlers[1] = [levels |-> {0, 4, 8}, fails |-> TRUE]
    /\ handlers[2] = [levels |-> {8}, fails |-> FALSE]
    /\ handlers[3] = [levels |-> {-4, 0, 4, 8}, fails |-> FALSE]
    /\ received = <<[handler |-> 1, record |-> record], [handler |-> 3, record |-> record]>>
    /\ handleRet = Nil

----------------------------------------------------------------------------
(* Telemetry *)

\* C22: in a process started with TELEMETRY_ENABLED=false, Sentry's hub never
\* has a client, the default logger never has the Sentry handler behind it,
\* no flush is deferred and no event is delivered to Sentry, at every point
\* of the run, whether the CLI succeeds (exit code 0) or fails (exit code 1).
C22_TelemetryDisabled ==
    env = "false" =>
        /\ client = Nil
        /\ defaultLogger = GoDefaultLogger
        /\ \A i \in 1..Len(defaultLogger) : defaultLogger[i] # "sentryHandler"
        /\ deferred = <<>>
        /\ sent = <<>>

\* TELEMETRY_ENABLED=false and the command failed: main called
\* sentry.CaptureException and sentry.Flush on a hub without a client and
\* exited with code 1
C22_Witness ==
    /\ env = "false" /\ mpc = "exited" /\ exitCode = 1
    /\ execErr # Nil
    /\ sentryCalls = <<"CaptureException", "Flush">>
    /\ client = Nil /\ sent = <<>>
    /\ stderr = <<"Error: context canceled\n">>

----------------------------------------------------------------------------
(* GetReadme and the kinds of ref *)

\* the README the repository holds at its ref under the first candidate
\* name that exists there
FirstReadme ==
    LET present == {i \in 1..Len(readmeNames) : readmeNames[i] \in DOMAIN repository.files}
    IN repository.files[readmeNames[Earliest(present)]]

\* C19: when GetReadme is given owner/repo@ref for a ref of the repository,
\* be it a branch, a tag or a commit, and the repository holds a README
\* under one of the candidate names at that ref, GetReadme returns its content.
C19_ReadmeAtAnyRef ==
    /\ spc = "done" /\ call.op = "GetReadme" /\ remote # <<>>
    /\ cref = Ref(<<"a">>, <<"b">>, repository.ref)
    /\ DOMAIN repository.files # {}
    => result = [val |-> <<FirstReadme>>, err |-> Nil]

====
